---- MODULE Spec2Model ----
(***************************************************************************)
(* Verification model of willthisfreeze: the camptocamp page iterator      *)
(* (C2CApiCallIterator), the harvest orchestrator (C2CScraper), the        *)
(* weather-station attribution batch job, the Meteo-France order          *)
(* pipeline (MFScraper), the worker pool of a list page and the geometry   *)
(* helpers.  Each component has its own specification; the variables of    *)
(* the other components stay at their initial values.                      *)
(***************************************************************************)
EXTENDS Integers, Sequences, FiniteSets, TLC

VARIABLES
    \* ---- C2CApiCallIterator (scraper/c2c_scraper.py) ----
    max_retries,        \* self.max_retries
    backoff_s,          \* self.backoff_s
    results_per_page,   \* self.results_per_page
    asserts_enabled,    \* FALSE when the interpreter runs with -O (assert statements stripped)
    num_iter_loops,     \* self.num_iter_loops
    current_loop,       \* self.current_loop
    attempt,            \* loop variable of _get_with_retries
    last_exc,           \* last_exc of _get_with_retries
    it_pc,              \* "ready" | "requesting" | "raised" | "stopped": where the last __next__ call is
    page_resps,         \* responses received during the current/last __next__ call
    page_requests,      \* HTTP requests issued during the current/last __next__ call
    page_sleeps,        \* durations passed to time.sleep during the current/last __next__ call
    raised_exc,         \* exception that left __next__
    pages_yielded,      \* payloads returned by __next__ so far
    first_total,        \* the "total" read from the first page's payload
    req_offset,         \* params["offset"] of the current/last __next__ call
    yielded_offsets,    \* offset of every payload returned by __next__, in order
    \* ---- C2CScraper (scraper/c2c_scraper.py) and its store (dbutils) ----
    target,             \* "routes" (mode init) | "outings" (mode update)
    explicit_start,     \* update_date_start was given to the constructor
    start_db,           \* the store when run() was called
    batch_db,           \* the store when the Session of the write loop was opened
    up_pages,           \* upstream: per activity, the list pages (each a sequence of document ids)
    up_assoc,           \* upstream: outing id -> sequence of the route ids it is associated with
    db,                 \* committed store: [routes, stubs, outings, links]
    h_pc,               \* "idle" | "activity" | "paging" | "writing" | "done" | "crashed"
    act,                \* index of the activity being scraped
    scraped_ids,        \* skip-set loaded at the start of the activity
    list_page,          \* list pages requested so far in this activity
    list_total,         \* pages planned by the activity's list iterator
    results,            \* `final` of _scrape_activity / `results` of _scrape
    write_idx,          \* items of results the write loop has gone through
    counters,           \* [skipped, written, errored] of the write loop
    message,            \* per-activity summaries
    crash_cause,        \* "none" | "precondition" | "list_fetch" | "write"
    run_exc,            \* exception that left run()
    last_wb,            \* what the last _insert_item call did
    conflicts,          \* items of the current write loop whose insert raised IntegrityError
    conflict_log,       \* per summary of `message`, the conflicts of its write loop
    \* ---- weather_stations_attribution (scraper/weather_stations_attribution.py) ----
    a_routes,           \* route ids in the store
    a_country,          \* route ids tagged with the target country
    station_pos,        \* station id -> position (km along a line) of the stations in the store
    a_links,            \* route_stations_mapping: set of <<route, station>>
    of_interest,        \* station id -> WeatherStation.of_interest
    a_pc,               \* "idle" | "routes"
    a_mode,             \* "update" | "reset"
    a_todo,             \* routes loaded for the pass, in processing order
    a_idx,              \* routes of a_todo already processed
    a_counts,           \* [processed, updated, no_station_candidates]
    a_passes,           \* attribution passes completed
    a_before,           \* route <-> station rows when the current pass started
    a_committed,        \* route <-> station rows as last committed
    \* ---- MFScraper.scrape_station (scraper/meteofrance_scraper.py) ----
    s_nchunks,          \* number of chunks of the requested period
    s_idx,              \* chunk being downloaded (1-based)
    s_pc,               \* "idle" | "place" | "poll" | "combine" | "done"
    s_order,            \* order id returned by place_command for the chunk (0: none)
    s_placed,           \* order ids handed out so far
    poll_requests,      \* GETs issued by the current poll_and_download call
    s_files,            \* order id -> content of mf_cmd_<id>.csv ("absent" if not written)
    downloaded_files,   \* scrape_station's downloaded_files, as order ids
    s_chunk_log,        \* per chunk: how download_period ended
    s_combined,         \* files concatenated by combine_csvs, in order
    \* ---- MFScraper._load_stations_metadata (scraper/meteofrance_scraper.py) ----
    m_open,             \* upstream: station ids flagged posteOuvert
    m_store,            \* weather_stations: committed station ids
    m_session,          \* station ids added to the open Session, not committed
    m_known,            \* already_scraped_stations, loaded at the start of the run
    m_dept,             \* loop variable dept
    m_pc,               \* "idle" | "loop" | "write" | "done" | "aborted"
    m_stations,         \* stationsList returned for the department being written
    m_widx,             \* entries of m_stations already handled by the write loop
    m_calls,            \* API calls issued by the run
    m_counts,           \* [scraped_dpt, skipped_dpt, written, skipped]
    m_runs,             \* runs started
    m_dropped,          \* uncommitted stations discarded by aborted runs
    \* ---- C2CScraper.run / _scrape in update mode: the outing window ----
    w_dates,            \* Outings.date per outing id, as a day number (NoDate: not stored)
    w_today,            \* datetime.now(), as a day number
    w_given,            \* update_date_start given to the constructor (NoDate: None)
    w_pc,               \* "idle" | "run" | "scraping" | "between" | "done" | "crashed"
    w_act,              \* activities scraped so far
    w_last_date,        \* value returned by get_last_outing_date (NoDate: not called)
    w_start,            \* self.update_date_start
    w_window,           \* <<from, to>> of the list request's date filter
    w_skip,             \* scraped_ids loaded for the activity
    \* ---- one turn of the attribution loop on a populated station table ----
    k_pos,              \* position of every station of the table
    k_prior,            \* route <-> station rows before the turn
    k_pc,               \* "route" | "loaded" | "filtered" | "attached" | "uncovered"
    k_list,             \* stations returned by load_stations_within_radius
    k_ids,              \* station_ids returned by filter_stations
    k_links,            \* route <-> station rows
    \* ---- MFScraper.chunk_period ----
    c_start,            \* start, as a day ordinal
    c_end,              \* end
    c_max_days,         \* max_days
    c_cur,              \* cur
    c_chunks,           \* chunks
    c_pc,               \* "loop" | "returned" | "raised"
    \* ---- MFScraper.place_command: the order id of a response ----
    o_json,             \* j = r.json()
    o_pc,               \* "response" | "returned" | "raised"
    o_order_id,         \* the value returned
    \* ---- MFScraper.get_with_retry ----
    g_max_retry,        \* max_retry
    g_i,                \* turns of the for loop entered
    g_log,              \* outcome of every requests.get so far, in order
    g_pc,               \* "first" | "loop" | "returned" | "raised"
    \* ---- bounding_box and the BETWEEN filter that uses it ----
    b_coord,            \* coord = <<lat, lon>>, in degrees
    b_radius,           \* max_distance_km, as degrees of arc
    b_box,              \* <<min_lat, max_lat, min_lon, max_lon>>
    b_point,            \* a point tested against the box
    b_inside,           \* result of the test
    b_pc,               \* "call" | "box" | "tested"
    \* ---- haversine_distance ----
    hv_a,               \* a coordinate <<lat, lon>>, in degrees
    hv_b,               \* another coordinate
    hv_ab,              \* outcome of haversine_distance(a, b)
    hv_ba,              \* outcome of haversine_distance(b, a)
    hv_aa,              \* outcome of haversine_distance(a, a)
    hv_pc,              \* "ab" | "ba" | "aa" | "done"
    \* ---- the workers of one list page (C2CScraper._scrape_activity) ----
    pl_target,          \* target
    pl_docs,            \* docs: the document ids of the page, in order
    pl_fetch,           \* upstream: how the requests about each document go
    pl_skip,            \* scraped_ids
    pl_parallel,        \* self.parallel
    pl_width,           \* self.num_processes
    pl_next,            \* index of the next document to hand to a pool process
    pl_running,         \* pool process -> index of the document it works on (0: idle)
    pl_out,             \* index -> result of the worker call, once it has returned
    pl_order,           \* indices in the order in which the worker calls returned
    pl_results,         \* results
    pl_pc               \* "batch" | "pool" | "returned"

fetchVars == <<max_retries, backoff_s, results_per_page, asserts_enabled, num_iter_loops,
               current_loop, attempt, last_exc, it_pc, page_resps, page_requests,
               page_sleeps, raised_exc, pages_yielded, first_total, req_offset,
               yielded_offsets>>

harvestVars == <<target, explicit_start, start_db, batch_db, up_pages, up_assoc, db, h_pc, act, scraped_ids, list_page, list_total,
                 results, write_idx, counters, message, crash_cause, run_exc, last_wb,
                 conflicts, conflict_log>>

attrVars == <<a_routes, a_country, station_pos, a_links, of_interest, a_pc, a_mode, a_todo,
              a_idx, a_counts, a_passes, a_before, a_committed>>

seriesVars == <<s_nchunks, s_idx, s_pc, s_order, s_placed, poll_requests, s_files,
                downloaded_files, s_chunk_log, s_combined>>

metaVars == <<m_open, m_store, m_session, m_known, m_dept, m_pc, m_stations, m_widx, m_calls,
              m_counts, m_runs, m_dropped>>

windowVars == <<w_dates, w_today, w_given, w_pc, w_act, w_last_date, w_start, w_window, w_skip>>

topkVars == <<k_pos, k_prior, k_pc, k_list, k_ids, k_links>>
chunkVars == <<c_start, c_end, c_max_days, c_cur, c_chunks, c_pc>>
orderVars == <<o_json, o_pc, o_order_id>>
retryVars == <<g_max_retry, g_i, g_log, g_pc>>
boxVars == <<b_coord, b_radius, b_box, b_point, b_inside, b_pc>>
havVars == <<hv_a, hv_b, hv_ab, hv_ba, hv_aa, hv_pc>>
poolVars == <<pl_target, pl_docs, pl_fetch, pl_skip, pl_parallel, pl_width, pl_next, pl_running,
              pl_out, pl_order, pl_results, pl_pc>>

vars == <<fetchVars, harvestVars, attrVars, seriesVars, metaVars, windowVars, topkVars, chunkVars, orderVars, retryVars, boxVars, havVars, poolVars>>

notFetchVars == <<harvestVars, attrVars, seriesVars, metaVars, windowVars, topkVars, chunkVars, orderVars, retryVars, boxVars, havVars, poolVars>>
notHarvestVars == <<fetchVars, attrVars, seriesVars, metaVars, windowVars, topkVars, chunkVars, orderVars, retryVars, boxVars, havVars, poolVars>>
notAttrVars == <<fetchVars, harvestVars, seriesVars, metaVars, windowVars, topkVars, chunkVars, orderVars, retryVars, boxVars, havVars, poolVars>>
notSeriesVars == <<fetchVars, harvestVars, attrVars, metaVars, windowVars, topkVars, chunkVars, orderVars, retryVars, boxVars, havVars, poolVars>>
notMetaVars == <<fetchVars, harvestVars, attrVars, seriesVars, windowVars, topkVars, chunkVars, orderVars, retryVars, boxVars, havVars, poolVars>>
notWindowVars == <<fetchVars, harvestVars, attrVars, seriesVars, metaVars, topkVars, chunkVars, orderVars, retryVars, boxVars, havVars, poolVars>>
notTopKVars == <<fetchVars, harvestVars, attrVars, seriesVars, metaVars, windowVars, chunkVars, orderVars, retryVars, boxVars, havVars, poolVars>>
notChunkVars == <<fetchVars, harvestVars, attrVars, seriesVars, metaVars, windowVars, topkVars, orderVars, retryVars, boxVars, havVars, poolVars>>
notOrderVars == <<fetchVars, harvestVars, attrVars, seriesVars, metaVars, windowVars, topkVars, chunkVars, retryVars, boxVars, havVars, poolVars>>
notRetryVars == <<fetchVars, harvestVars, attrVars, seriesVars, metaVars, windowVars, topkVars, chunkVars, orderVars, boxVars, havVars, poolVars>>
notBoxVars == <<fetchVars, harvestVars, attrVars, seriesVars, metaVars, windowVars, topkVars, chunkVars, orderVars, retryVars, havVars, poolVars>>
notHavVars == <<fetchVars, harvestVars, attrVars, seriesVars, metaVars, windowVars, topkVars, chunkVars, orderVars, retryVars, boxVars, poolVars>>
notPoolVars == <<fetchVars, harvestVars, attrVars, seriesVars, metaVars, windowVars, topkVars, chunkVars, orderVars, retryVars, boxVars, havVars>>

(***************************************************************************)
(* Bounds of the model                                                     *)
(***************************************************************************)
MaxTotal == 5      \* small totals reported by a first page (250 is added explicitly)
MaxPages == 3      \* only first pages planning at most this many pages are explored

(***************************************************************************)
(* HTTP responses and exceptions                                           *)
(***************************************************************************)
\* requests.get either returns a response with a status code or raises
\* (connection error, timeout).
StatusCodes == {200, 204, 404, 429, 503}
StatusResp(c) == [kind |-> "status", code |-> c]
ExcResp == [kind |-> "exc", code |-> 0]
Responses == {StatusResp(c) : c \in StatusCodes} \cup {ExcResp}

NoExc == [kind |-> "none", code |-> 0]
HTTPError(c) == [kind |-> "HTTPError", code |-> c]
ConnectionError == [kind |-> "ConnectionError", code |-> 0]
AssertionError == [kind |-> "AssertionError", code |-> 0]
TypeError == [kind |-> "TypeError", code |-> 0]

\* A list payload: {"total": n, "documents": [...]}; "total" may be absent.
Totals == (0..MaxTotal) \cup {250}
Payloads == [has_total : BOOLEAN, total : Totals]

RECURSIVE Pow2(_)
Pow2(n) == IF n <= 0 THEN 1 ELSE 2 * Pow2(n - 1)

\* math.ceil(a / b) for a >= 0, b > 0
CeilDiv(a, b) == (a + b - 1) \div b

(***************************************************************************)
(* C2CApiCallIterator                                                      *)
(***************************************************************************)
DefaultMaxRetries == 3

\* c2c_scraper.py:81  resp.status_code == 429 or 500 <= resp.status_code < 600
IsRetryableStatus(c) == c = 429 \/ (500 <= c /\ c < 600)

\* requests.Response.raise_for_status raises HTTPError for 4xx and 5xx
RaisesForStatus(c) == 400 <= c /\ c < 600

\* callresult.get("total", 0)
PayloadTotal(p) == IF p.has_total THEN p.total ELSE 0

\* _update_num_iter_loops: math.ceil(total / results_per_page) if total else 1
NumIterLoopsFloor(p, rpp) ==
    IF PayloadTotal(p) # 0 THEN PayloadTotal(p) \div rpp ELSE 1
NumIterLoops(p, rpp) ==
    IF PayloadTotal(p) # 0 THEN CeilDiv(PayloadTotal(p), rpp) ELSE 1

\* offset = (self.current_loop - 1) * self.results_per_page
PageOffsetOneBased(loop, rpp) == loop * rpp
PageOffset(loop, rpp) == (loop - 1) * rpp

\* time.sleep(self.backoff_s * (2 ** (attempt - 1)))
BackoffDelayOffByOne(base, att) == base * Pow2(att)
BackoffDelay(base, att) == base * Pow2(att - 1)

\* last_exc after one iteration of the retry loop that did not return:
\* the try body raises (requests.get itself, or raise_for_status in the
\* "non-retryable" branch) and the except clause records the exception;
\* a 429/5xx status, or a status raise_for_status accepts, records nothing.
ExcAfterAttempt(resp, last) ==
    IF resp.kind = "exc" THEN ConnectionError
    ELSE IF IsRetryableStatus(resp.code) THEN last
    ELSE IF RaisesForStatus(resp.code) THEN HTTPError(resp.code)
    ELSE last

\* after the loop: assert last_exc is not None; raise last_exc
GiveUpExc(last, asserts) ==
    IF last = NoExc
    THEN (IF asserts THEN AssertionError ELSE TypeError)
    ELSE last

IterInit ==
    /\ max_retries \in 1..DefaultMaxRetries
    /\ backoff_s \in {1, 2}
    /\ results_per_page \in {2, 100}
    /\ asserts_enabled \in BOOLEAN
    /\ num_iter_loops = 1
    /\ current_loop = 1
    /\ attempt = 0
    /\ last_exc = NoExc
    /\ it_pc = "ready"
    /\ page_resps = <<>>
    /\ page_requests = 0
    /\ page_sleeps = <<>>
    /\ raised_exc = NoExc
    /\ pages_yielded = 0
    /\ first_total = 0
    /\ req_offset = 0
    /\ yielded_offsets = <<>>

\* the iterator as the orchestrator builds it (default retries and backoff),
\* for the specifications of the other components
IterIdle ==
    /\ max_retries = DefaultMaxRetries
    /\ backoff_s = 1
    /\ results_per_page = 100
    /\ asserts_enabled = TRUE
    /\ num_iter_loops = 1
    /\ current_loop = 1
    /\ attempt = 0
    /\ last_exc = NoExc
    /\ it_pc = "ready"
    /\ page_resps = <<>>
    /\ page_requests = 0
    /\ page_sleeps = <<>>
    /\ raised_exc = NoExc
    /\ pages_yielded = 0
    /\ first_total = 0
    /\ req_offset = 0
    /\ yielded_offsets = <<>>

\* __next__ when every planned page has been returned: raise StopIteration.
\* The caller may call __next__ again after it raised, whatever it raised.
NextStop ==
    /\ it_pc \in {"ready", "raised", "stopped"}
    /\ current_loop > num_iter_loops
    /\ it_pc' = "stopped"
    /\ UNCHANGED <<max_retries, backoff_s, results_per_page, asserts_enabled, num_iter_loops,
                   current_loop, attempt, last_exc, page_resps, page_requests, page_sleeps,
                   raised_exc, pages_yielded, first_total, req_offset, yielded_offsets>>
    /\ UNCHANGED notFetchVars

\* __next__ entering _get_with_retries for page current_loop
NextBegin ==
    /\ it_pc \in {"ready", "raised", "stopped"}
    /\ current_loop <= num_iter_loops
    /\ it_pc' = "requesting"
    /\ req_offset' = PageOffset(current_loop, results_per_page)
    /\ attempt' = 1
    /\ last_exc' = NoExc
    /\ page_resps' = <<>>
    /\ page_requests' = 0
    /\ page_sleeps' = <<>>
    /\ raised_exc' = NoExc
    /\ UNCHANGED <<max_retries, backoff_s, results_per_page, asserts_enabled, num_iter_loops,
                   current_loop, pages_yielded, first_total, yielded_offsets>>
    /\ UNCHANGED notFetchVars

\* one iteration of the retry loop: the request, and either the return of the
\* 200 response (after which __next__ decodes the payload, plans the pages on
\* the first page and advances) or the bookkeeping and the backoff sleep
Attempt(resp, payload) ==
    /\ it_pc = "requesting"
    /\ attempt <= max_retries
    /\ page_requests' = page_requests + 1
    /\ page_resps' = Append(page_resps, resp)
    /\ IF resp.kind = "status" /\ resp.code = 200
       THEN /\ current_loop = 1 => NumIterLoops(payload, results_per_page) <= MaxPages
            /\ num_iter_loops' = IF current_loop = 1
                                 THEN NumIterLoops(payload, results_per_page)
                                 ELSE num_iter_loops
            /\ first_total' = IF current_loop = 1 THEN PayloadTotal(payload) ELSE first_total
            /\ current_loop' = current_loop + 1
            /\ pages_yielded' = pages_yielded + 1
            /\ yielded_offsets' = Append(yielded_offsets, req_offset)
            /\ it_pc' = "ready"
            /\ UNCHANGED <<attempt, last_exc, page_sleeps>>
       ELSE /\ last_exc' = ExcAfterAttempt(resp, last_exc)
            /\ page_sleeps' = Append(page_sleeps, BackoffDelay(backoff_s, attempt))
            /\ attempt' = attempt + 1
            /\ UNCHANGED <<num_iter_loops, first_total, current_loop, pages_yielded, it_pc,
                           yielded_offsets>>
    /\ UNCHANGED <<max_retries, backoff_s, results_per_page, asserts_enabled, raised_exc,
                   req_offset>>
    /\ UNCHANGED notFetchVars

\* the loop is exhausted: the assertion, then raise last_exc
GiveUp ==
    /\ it_pc = "requesting"
    /\ attempt > max_retries
    /\ raised_exc' = GiveUpExc(last_exc, asserts_enabled)
    /\ it_pc' = "raised"
    /\ UNCHANGED <<max_retries, backoff_s, results_per_page, asserts_enabled, num_iter_loops,
                   current_loop, attempt, last_exc, page_resps, page_requests, page_sleeps,
                   pages_yielded, first_total, req_offset, yielded_offsets>>
    /\ UNCHANGED notFetchVars

NextFetch ==
    \/ NextStop
    \/ NextBegin
    \/ \E resp \in Responses, payload \in Payloads : Attempt(resp, payload)
    \/ GiveUp


(***************************************************************************)
(* Claims about C2CApiCallIterator, checked under SpecFetch                *)
(***************************************************************************)
IsRetryableResp(r) == r.kind = "status" /\ IsRetryableStatus(r.code)
IsNonRetryableResp(r) ==
    r.kind = "status" /\ ~(200 <= r.code /\ r.code < 300) /\ ~IsRetryableStatus(r.code)
Is200(r) == r.kind = "status" /\ r.code = 200

\* C1: a status that is neither 2xx nor 429 nor 5xx (404) is never retried: the
\* page call has issued exactly one request, has slept for no backoff, and has
\* raised the HTTP error at once.
C1_NonRetryableRaisesAtOnce ==
    \A i \in 1..Len(page_resps) :
        IsNonRetryableResp(page_resps[i]) =>
            /\ page_requests = 1
            /\ page_sleeps = <<>>
            /\ it_pc = "raised"
            /\ raised_exc = HTTPError(page_resps[i].code)

\* C2: when all N allowed attempts of a page request ended in 429/5xx, the call
\* has issued exactly N requests and raises the last error observed in them.
C2_ExhaustedRaisesLastError ==
    (/\ it_pc = "raised"
     /\ \A i \in 1..Len(page_resps) : IsRetryableResp(page_resps[i]))
    => /\ page_requests = max_retries
       /\ raised_exc = HTTPError(page_resps[Len(page_resps)].code)

\* C3: k retryable failures (429/5xx), k < N, followed by a 200: the call is
\* still retrying after each failure, returns the 200 after exactly k+1
\* requests and exactly k sleeps, the i-th sleep lasting backoff_s * 2^(i-1).
C3_RetryThenSuccess ==
    LET n == Len(page_resps) IN
    /\ (/\ n > 0
        /\ n < max_retries
        /\ \A i \in 1..n : IsRetryableResp(page_resps[i]))
       => (it_pc = "requesting" /\ attempt = n + 1)
    /\ (/\ n > 0
        /\ \A i \in 1..(n - 1) : IsRetryableResp(page_resps[i])
        /\ Is200(page_resps[n]))
       => /\ n - 1 < max_retries
          /\ it_pc \in {"ready", "stopped"}
          /\ page_requests = n
          /\ Len(page_sleeps) = n - 1
          /\ \A i \in 1..(n - 1) : page_sleeps[i] = backoff_s * Pow2(i - 1)

\* witness of C3: 503, 503, 200 returned the page with exactly two sleeps
C3_Witness ==
    /\ page_resps = <<StatusResp(503), StatusResp(503), StatusResp(200)>>
    /\ it_pc = "ready"
    /\ Len(page_sleeps) = 2
    /\ pages_yielded >= 1

\* C4: once the first page has been returned, the number of planned pages is
\* the first page's total divided by the page size, rounded up (one page when
\* the total is zero or absent), it never changes afterwards, and the iterator
\* stops after having returned exactly that many pages.
C4_PageCountFromFirstPage ==
    /\ pages_yielded >= 1 =>
          IF first_total > 0
          THEN /\ num_iter_loops * results_per_page >= first_total
               /\ (num_iter_loops - 1) * results_per_page < first_total
          ELSE num_iter_loops = 1
    /\ pages_yielded <= num_iter_loops
    /\ it_pc = "stopped" => pages_yielded = num_iter_loops

\* witness of C4: total = 250 with limit = 100 ended after exactly 3 pages
C4_Witness ==
    /\ it_pc = "stopped"
    /\ first_total = 250
    /\ results_per_page = 100
    /\ pages_yielded = 3

\* the pages returned so far are the pages at offsets 0, L, 2L, ... in that
\* order, and a request in progress asks for the first page not yet returned
PagesInOffsetOrder ==
    /\ Len(yielded_offsets) = pages_yielded
    /\ \A i \in 1..Len(yielded_offsets) : yielded_offsets[i] = (i - 1) * results_per_page
    /\ it_pc \in {"requesting", "raised"} => req_offset = pages_yielded * results_per_page

\* the position and the page count move only in the step that receives a 200;
\* once every planned page has been returned, a call only stops
PositionMovesOnSuccessOnly ==
    /\ (current_loop' # current_loop \/ pages_yielded' # pages_yielded
                                     \/ num_iter_loops' # num_iter_loops)
          => /\ Len(page_resps') = Len(page_resps) + 1
             /\ Is200(page_resps'[Len(page_resps')])
             /\ current_loop' = current_loop + 1
             /\ pages_yielded' = pages_yielded + 1
    /\ it_pc' = "raised" => UNCHANGED <<current_loop, num_iter_loops, pages_yielded>>
    /\ (pages_yielded >= 1 /\ pages_yielded >= num_iter_loops)
          => /\ it_pc' = "stopped"
             /\ UNCHANGED <<page_requests, page_resps, current_loop, pages_yielded>>

\* C32: the pages of one iterator are returned in strictly increasing offset
\* order 0, L, 2L, ..., each at most once; the position advances only after a
\* successful fetch, a failed page request leaving position and page count
\* unchanged; after the last planned page every further call signals
\* exhaustion without any request.
C32_PagesInOrderOnce == []PagesInOffsetOrder /\ [][PositionMovesOnSuccessOnly]_vars

\* witness of C32: pages 0 and 100 were returned, then the request of the
\* page at offset 200 failed and left the iterator on its third page
C32_Witness ==
    /\ it_pc = "raised"
    /\ results_per_page = 100
    /\ yielded_offsets = <<0, 100>>
    /\ req_offset = 200
    /\ current_loop = 3
    /\ num_iter_loops = 3

\* the assertion of _update_num_iter_loops: the page count is only ever
\* written while the iterator is on its first page
PageCountSetOnFirstPage == [][num_iter_loops' # num_iter_loops => current_loop = 1]_vars

\* C35: no assertion of the iterator fails, whatever the responses and the
\* number of retries: the page count is updated on the first page only, and
\* an exception has been recorded whenever _get_with_retries gives up.
C35_NoAssertionFails ==
    /\ raised_exc # AssertionError
    /\ it_pc = "raised" => last_exc # NoExc

(***************************************************************************)
(* The store (dbutils/dbutils.py, dbutils/schema.py)                       *)
(***************************************************************************)
MaxRoutes == 2
NumActs == 2
RouteIds == 1..MaxRoutes
OutingIds == {1, 2}
Activities == 1..NumActs

EmptyDb == [routes |-> {}, stubs |-> {}, outings |-> {}, links |-> {}]

\* schema.py: Routes.lat and Routes.lon are declared `Mapped[float]` (NOT NULL),
\* so a route row built by get_obj from its id alone cannot be flushed.
StubRouteAcceptedNullable == TRUE
StubRouteAccepted == FALSE

\* outings of a route as the per-route outings endpoint lists them
UpOutings(assoc, r) == {o \in OutingIds : r \in assoc[o]}

\* insert_route: get-or-create the outings, add the route, commit; a second
\* row with the same primary key is an IntegrityError
InsertRoute(d, r, outs) ==
    IF r \in d.routes
    THEN [ok |-> FALSE, db |-> d]
    ELSE [ok |-> TRUE,
          db |-> [d EXCEPT !.routes = @ \cup {r},
                           !.outings = @ \cup outs,
                           !.links = @ \cup {<<r, o>> : o \in outs}]]

\* insert_outing: get-or-create the routes (a route that is absent becomes a
\* row holding its id only), add the outing, commit
InsertOuting(d, o, refs) ==
    LET absent == refs \ d.routes IN
    IF o \in d.outings \/ (absent # {} /\ ~StubRouteAccepted)
    THEN [ok |-> FALSE, db |-> d]
    ELSE [ok |-> TRUE,
          db |-> [d EXCEPT !.routes = @ \cup absent,
                           !.stubs = @ \cup absent,
                           !.outings = @ \cup {o},
                           !.links = @ \cup {<<r, o>> : r \in refs}]]

\* load_scraped_routes_ids / load_scraped_outings_ids.  The route query keeps
\* last_updated >= 2000-01-01: every route row written by insert_route carries
\* the run date.  Every outing of this store lies inside the window the
\* outing skip-set covers (the window itself is OutingSkipSet below).
LoadNoIds(d, tgt) == {}
LoadScrapedIds(d, tgt) == IF tgt = "routes" THEN d.routes ELSE d.outings

(***************************************************************************)
(* C2CScraper                                                              *)
(***************************************************************************)
RECURSIVE SetToSeq(_)
SetToSeq(S) ==
    IF S = {} THEN <<>>
    ELSE LET m == CHOOSE x \in S : \A y \in S : x <= y
         IN <<m>> \o SetToSeq(S \ {m})

\* _get_with_retries run to its end on the responses resps[1..N]
RECURSIVE RetryLoop(_, _, _, _, _)
RetryLoop(resps, att, last, n, asserts) ==
    IF att > n THEN [ok |-> FALSE, exc |-> GiveUpExc(last, asserts)]
    ELSE IF resps[att].kind = "status" /\ resps[att].code = 200
         THEN [ok |-> TRUE, exc |-> NoExc]
         ELSE RetryLoop(resps, att + 1, ExcAfterAttempt(resps[att], last), n, asserts)

ListResponses == {StatusResp(200), StatusResp(404), StatusResp(503), ExcResp}

\* the answers to the attempts of one list page request: the same answer to
\* every attempt, or a success after retryable failures
ListScripts ==
    {[i \in 1..DefaultMaxRetries |-> r] : r \in ListResponses}
    \cup {[i \in 1..DefaultMaxRetries |->
              IF i < DefaultMaxRetries THEN StatusResp(503) ELSE StatusResp(200)]}

\* how the requests of one worker call go: all succeed, a detail request
\* raises HTTPError, or the per-route outings iterator gets 503 to every attempt
FetchKinds == {"ok", "http_error", "exhausted"}

\* the exception caught by the worker's `except Exception as e`
WorkerExc(fetch, asserts) ==
    IF fetch = "ok" THEN NoExc
    ELSE IF fetch = "http_error" THEN HTTPError(404)
    ELSE RetryLoop([i \in 1..DefaultMaxRetries |-> StatusResp(503)], 1, NoExc,
                   DefaultMaxRetries, asserts).exc

\* str(e): the failed `assert last_exc is not None` carries no message
ErrorText(exc) == IF exc = AssertionError THEN "" ELSE "text"

\* the tests of the write loop: item.get("skipped"), then item.get("error")
ItemStatus(skipped, error) ==
    IF skipped THEN "skipped"
    ELSE IF error \notin {"absent", ""} THEN "error"
    ELSE "ok"

\* the three return statements of a worker
SkippedResult(base) ==
    base @@ [skipped |-> TRUE, error |-> "absent", info |-> "empty",
             status |-> ItemStatus(TRUE, "absent")]
ErrorResult(base, exc) ==
    base @@ [skipped |-> FALSE, error |-> ErrorText(exc), info |-> "empty",
             status |-> ItemStatus(FALSE, ErrorText(exc))]
OkResult(base, refs) ==
    [base EXCEPT !.refs = refs]
        @@ [skipped |-> FALSE, error |-> "absent", info |-> "full",
            status |-> ItemStatus(FALSE, "absent")]

\* detail requests a list worker issues before it tests the skip-set: the
\* `if force_api_call:` block, entered by scrape_outing (force_api_call=True)
\* and not by scrape_route (force_api_call=False)
ForcedRequests(tgt) == IF tgt = "outings" THEN 1 ELSE 0

\* scrape_outing (force_api_call = True: the detail request comes before the
\* skip-set test) and scrape_route (the skip-set test comes first); fetch is
\* how the requests of the call go
WorkerResult(tgt, id, fetch, skip, assoc, page, asserts) ==
    LET base == [kind |-> IF tgt = "routes" THEN "route" ELSE "outing",
                 id |-> id, page |-> page, refs |-> {},
                 forced |-> ForcedRequests(tgt)] IN
    IF tgt = "outings"
    THEN IF fetch # "ok" THEN ErrorResult(base, WorkerExc(fetch, asserts))
         ELSE IF id \in skip THEN SkippedResult(base)
         ELSE OkResult(base, assoc[id])
    ELSE IF id \in skip THEN SkippedResult(base)
         ELSE IF fetch # "ok" THEN ErrorResult(base, WorkerExc(fetch, asserts))
         ELSE OkResult(base, UpOutings(assoc, id))

NoWriteBack == [kind |-> "none", id |-> 0, missing |-> {}, fetches |-> <<>>, failed |-> {},
                route_inserts |-> <<>>, outing_insert |-> "none", absent_at_insert |-> {},
                refs |-> {}, ok |-> TRUE, raised |-> "none"]

\* the loop of _insert_item over the routes of an outing: existence check,
\* synchronous scrape_route of a missing route, insert_route unless the
\* result's error is truthy; insert_route(session, **{}) is a TypeError
RECURSIVE OutingRoutesLoop(_, _, _, _, _, _)
OutingRoutesLoop(routes, i, st, fetch_ok, assoc, asserts) ==
    IF i > Len(routes) THEN st
    ELSE LET r == routes[i] IN
         IF r \in st.db.routes
         THEN OutingRoutesLoop(routes, i + 1, st, fetch_ok, assoc, asserts)
         ELSE LET st1 == [st EXCEPT !.wb.missing = @ \cup {r},
                                    !.wb.fetches = Append(@, r)]
                  error == IF fetch_ok[r] = "ok" THEN "absent"
                           ELSE ErrorText(WorkerExc(fetch_ok[r], asserts))
              IN
              IF error \notin {"absent", ""}
              THEN OutingRoutesLoop(routes, i + 1,
                                    [st1 EXCEPT !.wb.failed = @ \cup {r}], fetch_ok, assoc,
                                    asserts)
              ELSE IF error = ""
              THEN [st1 EXCEPT !.wb.failed = @ \cup {r}, !.wb.ok = FALSE,
                               !.wb.raised = "TypeError"]
              ELSE LET ins == InsertRoute(st1.db, r, UpOutings(assoc, r)) IN
                   IF ~ins.ok
                   THEN [st1 EXCEPT !.wb.route_inserts = Append(@, r), !.wb.ok = FALSE,
                                    !.wb.raised = "IntegrityError"]
                   ELSE OutingRoutesLoop(routes, i + 1,
                                         [st1 EXCEPT !.db = ins.db,
                                                     !.wb.route_inserts = Append(@, r),
                                                     !.not_written = FALSE],
                                         fetch_ok, assoc, asserts)

\* _insert_item: returns the store and the record of what was done; wb.ok is
\* FALSE when an exception left the call, wb.raised names it
InsertItem(d, item, fetch_ok, assoc, asserts) ==
    LET wb0 == [NoWriteBack EXCEPT !.kind = item.kind, !.id = item.id, !.refs = item.refs] IN
    IF item.kind = "route"
    THEN IF item.info = "empty"
         THEN [db |-> d, wb |-> [wb0 EXCEPT !.ok = FALSE, !.raised = "TypeError"]]
         ELSE LET ins == InsertRoute(d, item.id, item.refs) IN
              [db |-> ins.db,
               wb |-> [wb0 EXCEPT !.route_inserts = <<item.id>>, !.ok = ins.ok,
                                  !.raised = IF ins.ok THEN "none" ELSE "IntegrityError"]]
    ELSE LET st == OutingRoutesLoop(SetToSeq(item.refs), 1,
                                    [db |-> d, wb |-> wb0, not_written |-> TRUE],
                                    fetch_ok, assoc, asserts) IN
         IF ~st.wb.ok \/ ~st.not_written
         THEN [db |-> st.db, wb |-> st.wb]
         ELSE LET ins == InsertOuting(st.db, item.id, item.refs) IN
              [db |-> ins.db,
               wb |-> [st.wb EXCEPT !.outing_insert = IF ins.ok THEN "ok" ELSE "IntegrityError",
                                    !.absent_at_insert = item.refs \ st.db.routes,
                                    !.ok = ins.ok,
                                    !.raised = IF ins.ok THEN "none" ELSE "IntegrityError"]]

\* try: self._insert_item(session, item); written += 1 -- the increment is
\* skipped when _insert_item raises
CountInsertAlways(c, ok) == [c EXCEPT !.written = @ + 1]
CountInsert(c, ok) == IF ok THEN [c EXCEPT !.written = @ + 1] ELSE c

\* message[act]
Summary(n, c) ==
    [total_scraped |-> n,
     total_written |-> c.written,
     total_skipped |-> c.skipped,
     total_errored |-> c.errored]

\* list pages served for one activity
ActLayouts == << << <<>> >>,
                 << <<1>>, <<2>> >>,
                 << <<1, 2>>, <<1>> >> >>
Layouts == {[a \in Activities |-> ActLayouts[((a + k) % Len(ActLayouts)) + 1]] :
              k \in 1..Len(ActLayouts)}

\* a store left by earlier passes: the routes S, each with the outings it had
\* then (the outings of `recent` were reported upstream afterwards)
StoreOf(S, recent, assoc) ==
    LET outs == (UNION {UpOutings(assoc, r) : r \in S}) \ recent IN
    [routes |-> S, stubs |-> {},
     outings |-> outs,
     links |-> {<<r, o>> \in S \X outs : r \in assoc[o]}]

HarvestInit ==
    /\ target \in {"routes", "outings"}
    /\ up_pages \in Layouts
    /\ up_assoc \in [OutingIds -> SUBSET RouteIds]
    /\ \E S \in SUBSET RouteIds, recent \in SUBSET OutingIds : db = StoreOf(S, recent, up_assoc)
    \* a given start date changes the run only where the latest outing date
    \* would have been read from a store without outings
    /\ explicit_start \in (IF target = "outings" /\ db.outings = {} THEN BOOLEAN ELSE {FALSE})
    /\ start_db = db
    /\ batch_db = db
    /\ h_pc = "idle"
    /\ act = 0
    /\ scraped_ids = {}
    /\ list_page = 0
    /\ list_total = 1
    /\ results = <<>>
    /\ write_idx = 0
    /\ counters = [skipped |-> 0, written |-> 0, errored |-> 0]
    /\ message = <<>>
    /\ crash_cause = "none"
    /\ run_exc = NoExc
    /\ last_wb = NoWriteBack
    /\ conflicts = 0
    /\ conflict_log = <<>>

HarvestIdle ==
    /\ target = "routes"
    /\ explicit_start = FALSE
    /\ start_db = EmptyDb
    /\ batch_db = EmptyDb
    /\ up_pages = <<>>
    /\ up_assoc = <<>>
    /\ db = EmptyDb
    /\ h_pc = "idle"
    /\ act = 0
    /\ scraped_ids = {}
    /\ list_page = 0
    /\ list_total = 1
    /\ results = <<>>
    /\ write_idx = 0
    /\ counters = [skipped |-> 0, written |-> 0, errored |-> 0]
    /\ message = <<>>
    /\ crash_cause = "none"
    /\ run_exc = NoExc
    /\ last_wb = NoWriteBack
    /\ conflicts = 0
    /\ conflict_log = <<>>

\* run(): mode update without a start date reads the latest outing date
\* (strptime of the NULL that MAX(date) gives on a store without outings is a
\* TypeError); then _scrape starts on the first activity
RunStart ==
    /\ h_pc = "idle"
    /\ IF target = "outings" /\ ~explicit_start /\ db.outings = {}
       THEN /\ h_pc' = "crashed"
            /\ crash_cause' = "precondition"
            /\ run_exc' = TypeError
            /\ act' = act
       ELSE /\ h_pc' = "activity"
            /\ act' = 1
            /\ UNCHANGED <<crash_cause, run_exc>>
    /\ UNCHANGED <<target, explicit_start, start_db, up_pages, up_assoc, db, scraped_ids, list_page, list_total,
                   results, write_idx, counters, message, last_wb>>
    /\ UNCHANGED batch_db
    /\ UNCHANGED <<conflicts, conflict_log>>
    /\ UNCHANGED notHarvestVars

\* _scrape, top of the activity loop: load the skip-set, build the list iterator
ActivityStart ==
    /\ h_pc = "activity"
    /\ act <= NumActs
    /\ scraped_ids' = LoadScrapedIds(db, target)
    /\ list_page' = 0
    /\ list_total' = 1
    /\ results' = <<>>
    /\ h_pc' = "paging"
    /\ UNCHANGED <<target, explicit_start, start_db, up_pages, up_assoc, db, act, write_idx, counters, message,
                   crash_cause, run_exc, last_wb>>
    /\ UNCHANGED batch_db
    /\ UNCHANGED <<conflicts, conflict_log>>
    /\ UNCHANGED notHarvestVars

\* _scrape_activity, one turn of `for payload in callIterator`: the list page
\* request with its retries, then the workers over the page's documents
FetchListPage(resps, fetched) ==
    /\ h_pc = "paging"
    /\ list_page < list_total
    /\ LET out == RetryLoop(resps, 1, NoExc, max_retries, asserts_enabled)
           pageno == list_page + 1
           docs == up_pages[act][pageno]
       IN /\ list_page' = pageno
          /\ IF out.ok
             THEN /\ fetched \in [1..Len(docs) -> FetchKinds]
                  /\ target = "outings" => \A i \in 1..Len(docs) : fetched[i] # "exhausted"
                  /\ list_total' = IF pageno = 1 THEN Len(up_pages[act]) ELSE list_total
                  /\ results' = results \o
                        [i \in 1..Len(docs) |->
                            WorkerResult(target, docs[i], fetched[i], scraped_ids,
                                         up_assoc, pageno, asserts_enabled)]
                  /\ UNCHANGED <<h_pc, crash_cause, run_exc>>
             ELSE /\ fetched = <<>>
                  /\ h_pc' = "crashed"
                  /\ crash_cause' = "list_fetch"
                  /\ run_exc' = out.exc
                  /\ UNCHANGED <<list_total, results>>
    /\ UNCHANGED <<target, explicit_start, start_db, up_pages, up_assoc, db, act, scraped_ids, write_idx, counters,
                   message, last_wb>>
    /\ UNCHANGED batch_db
    /\ UNCHANGED <<conflicts, conflict_log>>
    /\ UNCHANGED notHarvestVars

\* the list iterator raises StopIteration: _scrape_activity returns and the
\* write loop of _scrape opens its session
PagingDone ==
    /\ h_pc = "paging"
    /\ list_page >= list_total
    /\ h_pc' = "writing"
    /\ batch_db' = db
    /\ write_idx' = 0
    /\ counters' = [skipped |-> 0, written |-> 0, errored |-> 0]
    /\ UNCHANGED <<target, explicit_start, start_db, up_pages, up_assoc, db, act, scraped_ids, list_page, list_total,
                   results, message, crash_cause, run_exc, last_wb>>
    /\ conflicts' = 0
    /\ UNCHANGED conflict_log
    /\ UNCHANGED notHarvestVars

\* one turn of the write loop of _scrape: only IntegrityError is caught, any
\* other exception of _insert_item leaves _scrape and run().  fetch_ok[r] is
\* how the synchronous scrape_route of route r goes (fixed to "ok" for the
\* routes the item does not make a request for)
WriteItem(fetch_ok) ==
    /\ h_pc = "writing"
    /\ write_idx < Len(results)
    /\ write_idx' = write_idx + 1
    /\ \A r \in RouteIds :
          LET item == results[write_idx + 1] IN
          (item.kind # "outing" \/ r \notin item.refs \/ r \in db.routes)
              => fetch_ok[r] = "ok"
    /\ LET item == results[write_idx + 1] IN
       IF ItemStatus(item.skipped, item.error) = "skipped"
       THEN /\ counters' = [counters EXCEPT !.skipped = @ + 1]
            /\ UNCHANGED <<db, last_wb, h_pc, crash_cause, run_exc, conflicts>>
       ELSE IF ItemStatus(item.skipped, item.error) = "error"
       THEN /\ counters' = [counters EXCEPT !.errored = @ + 1]
            /\ UNCHANGED <<db, last_wb, h_pc, crash_cause, run_exc, conflicts>>
       ELSE LET res == InsertItem(db, item, fetch_ok, up_assoc, asserts_enabled) IN
            /\ db' = res.db
            /\ last_wb' = res.wb
            /\ counters' = CountInsert(counters, res.wb.ok)
            /\ conflicts' = IF res.wb.raised = "IntegrityError" THEN conflicts + 1
                             ELSE conflicts
            /\ IF res.wb.raised = "TypeError"
               THEN /\ h_pc' = "crashed"
                    /\ crash_cause' = "write"
                    /\ run_exc' = TypeError
               ELSE UNCHANGED <<h_pc, crash_cause, run_exc>>
    /\ UNCHANGED <<target, explicit_start, start_db, up_pages, up_assoc, act, scraped_ids,
                   list_page, list_total, results, message>>
    /\ UNCHANGED batch_db
    /\ UNCHANGED conflict_log
    /\ UNCHANGED notHarvestVars

\* end of the write loop: the activity's summary, then the next activity
ActivityDone ==
    /\ h_pc = "writing"
    /\ write_idx = Len(results)
    /\ message' = Append(message, Summary(Len(results), counters))
    /\ act' = act + 1
    /\ h_pc' = "activity"
    /\ UNCHANGED <<target, explicit_start, start_db, up_pages, up_assoc, db, scraped_ids, list_page, list_total,
                   results, write_idx, counters, crash_cause, run_exc, last_wb>>
    /\ UNCHANGED batch_db
    /\ conflict_log' = Append(conflict_log, conflicts)
    /\ UNCHANGED conflicts
    /\ UNCHANGED notHarvestVars

\* _scrape returns the message and run() returns it
RunDone ==
    /\ h_pc = "activity"
    /\ act > NumActs
    /\ h_pc' = "done"
    /\ UNCHANGED <<target, explicit_start, start_db, up_pages, up_assoc, db, act, scraped_ids, list_page, list_total,
                   results, write_idx, counters, message, crash_cause, run_exc, last_wb>>
    /\ UNCHANGED batch_db
    /\ UNCHANGED <<conflicts, conflict_log>>
    /\ UNCHANGED notHarvestVars

NextHarvest ==
    \/ RunStart
    \/ ActivityStart
    \/ \E resps \in ListScripts,
          fetched \in UNION {[1..n -> FetchKinds] : n \in 0..2} : FetchListPage(resps, fetched)
    \/ PagingDone
    \/ \E fetch_ok \in [RouteIds -> FetchKinds] : WriteItem(fetch_ok)
    \/ ActivityDone
    \/ RunDone

(***************************************************************************)
(* weather_stations_attribution                                            *)
(***************************************************************************)
MaxARoutes == 2
MaxStations == 2
MaxPasses == 2
RADIUS_KM == 20
NKEEP == 10
ARouteIds == 1..MaxARoutes
StationIds == 1..MaxStations

\* routes and stations lie on one line: route r at RADIUS_KM * r, a station
\* at a multiple of RADIUS_KM
RoutePos(r) == RADIUS_KM * r
StationPositions == {RADIUS_KM * k : k \in 0..(MaxARoutes + 1)}
Abs(x) == IF x < 0 THEN -x ELSE x

\* haversine_distance between a route and a station
Distance(r, s, pos) == Abs(RoutePos(r) - pos[s])

\* load_stations_within_radius: the stations inside the bounding box
StationsWithinRadius(r, pos, radius) ==
    {s \in DOMAIN pos : /\ RoutePos(r) - radius <= pos[s]
                        /\ pos[s] <= RoutePos(r) + radius}

RECURSIVE ReverseSeq(_)
ReverseSeq(q) == IF q = <<>> THEN <<>> ELSE ReverseSeq(Tail(q)) \o <<Head(q)>>

\* the query has no ORDER BY: the rows come in an order the store chooses
QueryOrders(S) == {SetToSeq(S), ReverseSeq(SetToSeq(S))}

RangeOf(q) == {q[i] : i \in 1..Len(q)}

\* sorted(stations, key=haversine_distance): stable, ascending
RECURSIVE InsertByDistance(_, _, _, _)
InsertByDistance(r, sorted, s, pos) ==
    IF sorted = <<>> THEN <<s>>
    ELSE IF Distance(r, s, pos) < Distance(r, Head(sorted), pos)
    THEN <<s>> \o sorted
    ELSE <<Head(sorted)>> \o InsertByDistance(r, Tail(sorted), s, pos)

RECURSIVE SortedByDistance(_, _, _)
SortedByDistance(r, list, pos) ==
    IF list = <<>> THEN <<>>
    ELSE InsertByDistance(r, SortedByDistance(r, SubSeq(list, 1, Len(list) - 1), pos),
                          list[Len(list)], pos)

\* filter_stations: the ids of the first nkeep stations by distance
FilterStationsNoCut(r, list, pos, nkeep) == SortedByDistance(r, list, pos)
FilterStations(r, list, pos, nkeep) ==
    IF list = <<>> THEN <<>>
    ELSE LET sorted == SortedByDistance(r, list, pos)
         IN SubSeq(sorted, 1, IF nkeep < Len(sorted) THEN nkeep ELSE Len(sorted))

\* update_routes_station_mapping: route.stations = the stations with these ids
UpdateRoutesStationMapping(links, r, station_ids, pos) ==
    {l \in links : l[1] # r}
        \cup {<<r, s>> : s \in {t \in DOMAIN pos : t \in RangeOf(station_ids)}}

StationsOf(links, r) == {s \in StationIds : <<r, s>> \in links}
RoutesOf(links, s) == {r \in ARouteIds : <<r, s>> \in links}

\* load_routes(country_id) and, in update mode, check_routes_for_update
RoutesToProcessAll(mode, routes, country, links) == routes \cap country
RoutesToProcess(mode, routes, country, links) ==
    IF mode = "reset" THEN routes \cap country
    ELSE {r \in routes \cap country : StationsOf(links, r) = {}}

\* update_weather_stations_interest_flag: stations without any route are set
\* to False; no other row is touched
InterestFlags(flags, links) ==
    [s \in StationIds |-> IF RoutesOf(links, s) = {} THEN FALSE ELSE flags[s]]

\* reset_attribution: delete(route_stations_mapping)
ResetKeepsLinks(links) == links
ResetAttribution(links) == {}

\* the route loop writes no station flag
FlagsPerRoute(flags, links) == InterestFlags(flags, links)
FlagsInLoop(flags, links) == flags

\* the counters of one loop turn
CountUpdated(counts) == [counts EXCEPT !.processed = @ + 1, !.updated = @ + 1]
CountUncoveredAsUpdated(counts) == CountUpdated(counts)
CountUncovered(counts) ==
    [counts EXCEPT !.processed = @ + 1, !.no_station_candidates = @ + 1]

COMMIT_EVERY == 200

\* the store when the job starts: some routes harvested, every station with
\* the default ofInterest = True, and the rows earlier passes left, which
\* need not be what the present station table would give
AttrInit ==
    /\ a_routes \in SUBSET ARouteIds
    /\ a_country \in SUBSET ARouteIds
    /\ station_pos \in [StationIds -> StationPositions]
    /\ \E s0 \in StationIds, R0 \in SUBSET a_routes : a_links = R0 \X {s0}
    /\ of_interest = [s \in StationIds |-> TRUE]
    /\ a_pc = "idle"
    /\ a_mode = "update"
    /\ a_todo = <<>>
    /\ a_idx = 0
    /\ a_counts = [processed |-> 0, updated |-> 0, no_station_candidates |-> 0]
    /\ a_passes = 0
    /\ a_before = a_links
    /\ a_committed = a_links

AttrIdle ==
    /\ a_routes = {}
    /\ a_country = {}
    /\ station_pos = <<>>
    /\ a_links = {}
    /\ of_interest = <<>>
    /\ a_pc = "idle"
    /\ a_mode = "update"
    /\ a_todo = <<>>
    /\ a_idx = 0
    /\ a_counts = [processed |-> 0, updated |-> 0, no_station_candidates |-> 0]
    /\ a_passes = 0
    /\ a_before = {}
    /\ a_committed = {}

\* between two passes the harvest inserts a new route
HarvestAddsRoute(r) ==
    /\ a_pc = "idle"
    /\ r \notin a_routes
    /\ a_routes' = a_routes \cup {r}
    /\ UNCHANGED <<a_country, station_pos, a_links, of_interest, a_pc, a_mode, a_todo, a_idx,
                   a_counts, a_passes, a_before, a_committed>>
    /\ UNCHANGED notAttrVars

\* weather_stations_attribution up to the route loop: reset deletes every
\* association and commits; the routes of the pass are loaded
AttrStart(mode) ==
    /\ a_pc = "idle"
    /\ a_passes < MaxPasses
    /\ a_mode' = mode
    /\ a_before' = a_links
    /\ a_links' = IF mode = "reset" THEN ResetAttribution(a_links) ELSE a_links
    /\ a_committed' = IF mode = "reset" THEN a_links' ELSE a_committed
    /\ a_todo' = SetToSeq(RoutesToProcess(mode, a_routes, a_country, a_links'))
    /\ a_idx' = 0
    /\ a_counts' = [processed |-> 0, updated |-> 0, no_station_candidates |-> 0]
    /\ a_pc' = "routes"
    /\ UNCHANGED <<a_routes, a_country, station_pos, of_interest, a_passes>>
    /\ UNCHANGED notAttrVars

\* one turn of the route loop
AttrRoute ==
    /\ a_pc = "routes"
    /\ a_idx < Len(a_todo)
    /\ a_idx' = a_idx + 1
    /\ LET r == a_todo[a_idx + 1]
           stations == StationsWithinRadius(r, station_pos, RADIUS_KM)
       IN IF stations = {}
          THEN /\ a_counts' = CountUncovered(a_counts)
               /\ UNCHANGED <<a_links, a_committed>>
          ELSE /\ \E list \in QueryOrders(stations) :
                    a_links' = UpdateRoutesStationMapping(
                                   a_links, r, FilterStations(r, list, station_pos, NKEEP),
                                   station_pos)
               /\ a_counts' = CountUpdated(a_counts)
               /\ a_committed' = IF a_counts'.processed % COMMIT_EVERY = 0
                                 THEN a_links' ELSE a_committed
    /\ of_interest' = FlagsInLoop(of_interest, a_links')
    /\ UNCHANGED <<a_routes, a_country, station_pos, a_pc, a_mode, a_todo, a_passes, a_before>>
    /\ UNCHANGED notAttrVars

\* after the loop: the final commit for remaining work
AttrFinalCommit ==
    /\ a_pc = "routes"
    /\ a_idx = Len(a_todo)
    /\ a_committed' = a_links
    /\ a_pc' = "flags"
    /\ UNCHANGED <<a_routes, a_country, station_pos, a_links, of_interest, a_mode, a_todo,
                   a_idx, a_counts, a_passes, a_before>>
    /\ UNCHANGED notAttrVars

\* update_weather_stations_interest_flag, which ends the pass
AttrFinish ==
    /\ a_pc = "flags"
    /\ of_interest' = InterestFlags(of_interest, a_links)
    /\ a_passes' = a_passes + 1
    /\ a_pc' = "idle"
    /\ UNCHANGED <<a_routes, a_country, station_pos, a_links, a_mode, a_todo, a_idx, a_counts,
                   a_before, a_committed>>
    /\ UNCHANGED notAttrVars

NextAttr ==
    \/ \E r \in ARouteIds : HarvestAddsRoute(r)
    \/ \E mode \in {"update", "reset"} : AttrStart(mode)
    \/ AttrRoute
    \/ AttrFinalCommit
    \/ AttrFinish

(***************************************************************************)
(* MFScraper.scrape_station: place_command, poll_and_download, combine_csvs*)
(***************************************************************************)
MaxChunks == 3
OrderIds == 1..MaxChunks

\* what the commande/fichier endpoint can answer: the file, "production
\* still in progress" (204, empty body), an error status, or no answer
PollResponses ==
    { [kind |-> "status", code |-> 200, content |-> "csv"],
      [kind |-> "status", code |-> 201, content |-> "csv"],
      [kind |-> "status", code |-> 204, content |-> ""],
      [kind |-> "status", code |-> 404, content |-> ""],
      [kind |-> "status", code |-> 500, content |-> ""],
      [kind |-> "exc", code |-> 0, content |-> ""] }

\* what place_command can end with: an order id, or an exception
\* (raise_for_status, or no digit string in the response)
RuntimeError == [kind |-> "RuntimeError", code |-> 0]
PlaceResults ==
    {[exc |-> NoExc, id |-> o] : o \in OrderIds}
        \cup {[exc |-> e, id |-> 0] : e \in {HTTPError(500), RuntimeError}}

\* the exception a poll request ends with (NoExc: none)
PollExc(resp) ==
    IF resp.kind = "exc" THEN ConnectionError
    ELSE IF RaisesForStatus(resp.code) THEN HTTPError(resp.code)
    ELSE NoExc

ChunkEntry(stage, exc, resp, requests) ==
    [stage |-> stage, exc |-> exc, code |-> resp.code, content |-> resp.content,
     requests |-> requests]
NoResponse == [kind |-> "none", code |-> 0, content |-> ""]

\* the for loop of scrape_station: next chunk, or combine after the last
AfterChunk(idx, n) == IF idx < n THEN "place" ELSE "combine"

\* scrape_station has computed the chunks and enters the loop
SeriesInit ==
    /\ s_nchunks \in 1..MaxChunks
    /\ s_idx = 1
    /\ s_pc = "place"
    /\ s_order = 0
    /\ s_placed = {}
    /\ poll_requests = 0
    /\ s_files = [o \in OrderIds |-> "absent"]
    /\ downloaded_files = <<>>
    /\ s_chunk_log = <<>>
    /\ s_combined = <<>>

SeriesIdle ==
    /\ s_nchunks = 0
    /\ s_idx = 0
    /\ s_pc = "idle"
    /\ s_order = 0
    /\ s_placed = {}
    /\ poll_requests = 0
    /\ s_files = <<>>
    /\ downloaded_files = <<>>
    /\ s_chunk_log = <<>>
    /\ s_combined = <<>>

\* download_period, first half: place_command for the chunk; an exception
\* is caught by scrape_station, which continues with the next chunk
PlaceCommand(res) ==
    /\ s_pc = "place"
    /\ res.id \notin s_placed
    /\ IF res.exc = NoExc
       THEN /\ s_order' = res.id
            /\ s_placed' = s_placed \cup {res.id}
            /\ poll_requests' = 0
            /\ s_pc' = "poll"
            /\ UNCHANGED <<s_idx, s_chunk_log>>
       ELSE /\ s_chunk_log' = Append(s_chunk_log, ChunkEntry("place", res.exc, NoResponse, 0))
            /\ s_idx' = s_idx + 1
            /\ s_pc' = AfterChunk(s_idx, s_nchunks)
            /\ UNCHANGED <<s_order, s_placed, poll_requests>>
    /\ UNCHANGED <<s_nchunks, s_files, downloaded_files, s_combined>>
    /\ UNCHANGED notSeriesVars

\* poll_and_download: one turn of the while loop. The GET either raises
\* (exception or raise_for_status), or its body is written to the file and
\* the file name is returned from inside the with block; the statements
\* after the return (deadline test, sleep) are never executed.
PollRequest(resp) ==
    /\ s_pc = "poll"
    /\ poll_requests' = poll_requests + 1
    /\ IF PollExc(resp) # NoExc
       THEN /\ s_chunk_log' = Append(s_chunk_log,
                                     ChunkEntry("poll", PollExc(resp), resp, poll_requests'))
            /\ UNCHANGED <<s_files, downloaded_files>>
       ELSE /\ s_files' = [s_files EXCEPT ![s_order] = resp.content]
            /\ downloaded_files' = Append(downloaded_files, s_order)
            /\ s_chunk_log' = Append(s_chunk_log, ChunkEntry("poll", NoExc, resp, poll_requests'))
    /\ s_idx' = s_idx + 1
    /\ s_pc' = AfterChunk(s_idx, s_nchunks)
    /\ UNCHANGED <<s_nchunks, s_order, s_placed, s_combined>>
    /\ UNCHANGED notSeriesVars

\* combine_csvs: a file pd.read_csv cannot parse (an empty one) is left out
CombineCsvs ==
    /\ s_pc = "combine"
    /\ s_combined' = SelectSeq(downloaded_files, LAMBDA o : s_files[o] = "csv")
    /\ s_pc' = "done"
    /\ UNCHANGED <<s_nchunks, s_idx, s_order, s_placed, poll_requests, s_files,
                   downloaded_files, s_chunk_log>>
    /\ UNCHANGED notSeriesVars

NextSeries ==
    \/ \E res \in PlaceResults : PlaceCommand(res)
    \/ \E resp \in PollResponses : PollRequest(resp)
    \/ CombineCsvs

(***************************************************************************)
(* MFScraper._load_stations_metadata, scrape_stations_metadata             *)
(***************************************************************************)
MaxDepts == 2
MaxPerDept == 2
MaxRuns == 2
Departments == 1..MaxDepts

\* a station id is the department number followed by a rank in the listing
MetaStationId(d, k) == d * 100 + k
\* int(s[:2])
DeptOf(id) == id \div 100
\* the id the code drops by hand (73187403): the first station of the last
\* department of the model
HardExcludedId == MetaStationId(MaxDepts, 1)

\* the answer of the liste-station endpoint for a department, in order
Listing(d) == [k \in 1..MaxPerDept |-> MetaStationId(d, k)]
AllMetaStations == {MetaStationId(d, k) : d \in Departments, k \in 1..MaxPerDept}

\* already_scraped_department
ScrapedDepartments(known) == {DeptOf(id) : id \in known}

\* the test `dept in already_scraped_department`
DeptNeverSkipped(dept, known) == FALSE
DeptAlreadyScraped(dept, known) == dept \in ScrapedDepartments(known)

\* the test guarding stationsList.append({... "skipped": True ...})
StationDroppedUnlessExcluded(id, known, open) == id \in known \/ id \notin open
StationDropped(id, known, open) ==
    \/ id \in known
    \/ id \notin open
    \/ id = HardExcludedId

\* the commit argument insert_weather_station is called with
InsertCommitsEach == TRUE
InsertCommits == FALSE

ListCall(d) == [kind |-> "list", dept |-> d, id |-> 0]
MetaCall(id) == [kind |-> "meta", dept |-> DeptOf(id), id |-> id]

\* scrape_stations_metadata on a listing prefix: entries and metadata calls
RECURSIVE ScrapeListing(_, _, _, _)
ScrapeListing(listing, n, known, open) ==
    IF n = 0 THEN [stations |-> <<>>, calls |-> <<>>]
    ELSE LET prev == ScrapeListing(listing, n - 1, known, open)
             id == listing[n]
         IN IF StationDropped(id, known, open)
            THEN [stations |-> Append(prev.stations, [id |-> id, skipped |-> TRUE]),
                  calls |-> prev.calls]
            ELSE [stations |-> Append(prev.stations, [id |-> id, skipped |-> FALSE]),
                  calls |-> Append(prev.calls, MetaCall(id))]

ZeroMetaCounts == [scraped_dpt |-> 0, skipped_dpt |-> 0, written |-> 0, skipped |-> 0]

\* an empty store; the upstream listing has some stations closed
MetaInit ==
    /\ m_open \in SUBSET AllMetaStations
    /\ m_store = {}
    /\ m_session = {}
    /\ m_known = {}
    /\ m_dept = 0
    /\ m_pc = "idle"
    /\ m_stations = <<>>
    /\ m_widx = 0
    /\ m_calls = <<>>
    /\ m_counts = ZeroMetaCounts
    /\ m_runs = 0
    /\ m_dropped = {}

MetaIdle ==
    /\ m_open = {}
    /\ m_store = {}
    /\ m_session = {}
    /\ m_known = {}
    /\ m_dept = 0
    /\ m_pc = "idle"
    /\ m_stations = <<>>
    /\ m_widx = 0
    /\ m_calls = <<>>
    /\ m_counts = ZeroMetaCounts
    /\ m_runs = 0
    /\ m_dropped = {}

\* run() in init mode: load_scraped_stations_ids, then enter the loop
MetaRunStart ==
    /\ m_pc \in {"idle", "done", "aborted"}
    /\ m_runs < MaxRuns
    /\ m_runs' = m_runs + 1
    /\ m_known' = m_store
    /\ m_dept' = 1
    /\ m_pc' = "loop"
    /\ m_session' = {}
    /\ m_stations' = <<>>
    /\ m_widx' = 0
    /\ m_calls' = <<>>
    /\ m_counts' = ZeroMetaCounts
    /\ UNCHANGED <<m_open, m_store, m_dropped>>
    /\ UNCHANGED notMetaVars

\* a department found in already_scraped_department
MetaSkipDept ==
    /\ m_pc = "loop"
    /\ m_dept <= MaxDepts
    /\ DeptAlreadyScraped(m_dept, m_known)
    /\ m_counts' = [m_counts EXCEPT !.skipped_dpt = @ + 1]
    /\ m_dept' = m_dept + 1
    /\ UNCHANGED <<m_open, m_store, m_session, m_known, m_pc, m_stations, m_widx, m_calls,
                   m_runs, m_dropped>>
    /\ UNCHANGED notMetaVars

\* scrape_stations_metadata for the department.  fail_at = 0: the listing
\* request raises; fail_at = j <= number of metadata requests: the j-th
\* metadata request raises; otherwise the list is returned and a Session
\* is opened.  An exception leaves run() uncaught.
MetaScrapeDept(fail_at) ==
    /\ m_pc = "loop"
    /\ m_dept <= MaxDepts
    /\ ~DeptAlreadyScraped(m_dept, m_known)
    /\ LET res == ScrapeListing(Listing(m_dept), MaxPerDept, m_known, m_open)
           nmeta == Len(res.calls)
       IN /\ fail_at <= nmeta + 1
          /\ IF fail_at = 0
             THEN /\ m_calls' = Append(m_calls, ListCall(m_dept))
                  /\ m_pc' = "aborted"
                  /\ UNCHANGED <<m_stations, m_counts>>
             ELSE IF fail_at <= nmeta
             THEN /\ m_calls' = Append(m_calls, ListCall(m_dept)) \o SubSeq(res.calls, 1, fail_at)
                  /\ m_pc' = "aborted"
                  /\ UNCHANGED <<m_stations, m_counts>>
             ELSE /\ m_calls' = Append(m_calls, ListCall(m_dept)) \o res.calls
                  /\ m_stations' = res.stations
                  /\ m_counts' = [m_counts EXCEPT !.scraped_dpt = @ + 1]
                  /\ m_pc' = "write"
    /\ m_widx' = 0
    /\ m_session' = {}
    /\ UNCHANGED <<m_open, m_store, m_known, m_dept, m_runs, m_dropped>>
    /\ UNCHANGED notMetaVars

\* one turn of the write loop: insert_weather_station(commit=False) or skip
MetaWriteStation ==
    /\ m_pc = "write"
    /\ m_widx < Len(m_stations)
    /\ m_widx' = m_widx + 1
    /\ LET e == m_stations[m_widx + 1]
       IN IF e.skipped
          THEN /\ m_counts' = [m_counts EXCEPT !.skipped = @ + 1]
               /\ UNCHANGED <<m_session, m_store>>
          ELSE /\ m_counts' = [m_counts EXCEPT !.written = @ + 1]
               /\ IF InsertCommits
                  THEN /\ m_store' = m_store \cup m_session \cup {e.id}
                       /\ m_session' = {}
                  ELSE /\ m_session' = m_session \cup {e.id}
                       /\ UNCHANGED m_store
    /\ UNCHANGED <<m_open, m_known, m_dept, m_pc, m_stations, m_calls, m_runs, m_dropped>>
    /\ UNCHANGED notMetaVars

\* session.commit() after the write loop, then the next department
MetaCommitDept ==
    /\ m_pc = "write"
    /\ m_widx = Len(m_stations)
    /\ m_store' = m_store \cup m_session
    /\ m_session' = {}
    /\ m_dept' = m_dept + 1
    /\ m_pc' = "loop"
    /\ UNCHANGED <<m_open, m_known, m_stations, m_widx, m_calls, m_counts, m_runs, m_dropped>>
    /\ UNCHANGED notMetaVars

\* the run dies while a Session is open: what was not committed is rolled back
MetaAbortInWrite ==
    /\ m_pc = "write"
    /\ m_dropped' = m_dropped \cup m_session
    /\ m_session' = {}
    /\ m_pc' = "aborted"
    /\ UNCHANGED <<m_open, m_store, m_known, m_dept, m_stations, m_widx, m_calls, m_counts,
                   m_runs>>
    /\ UNCHANGED notMetaVars

\* the loop has run over every department
MetaRunDone ==
    /\ m_pc = "loop"
    /\ m_dept > MaxDepts
    /\ m_pc' = "done"
    /\ UNCHANGED <<m_open, m_store, m_session, m_known, m_dept, m_stations, m_widx, m_calls,
                   m_counts, m_runs, m_dropped>>
    /\ UNCHANGED notMetaVars

NextMeta ==
    \/ MetaRunStart
    \/ MetaSkipDept
    \/ \E fail_at \in 0..(MaxPerDept + 1) : MetaScrapeDept(fail_at)
    \/ MetaWriteStation
    \/ MetaCommitDept
    \/ MetaAbortInWrite
    \/ MetaRunDone

(***************************************************************************)
(* C2CScraper in update mode: fetch window and outing skip-set             *)
(***************************************************************************)
MaxDay == 40
MaxWOutings == 2
TRAILING_MARGIN_DAYS == 7
LOOKBACK_DAYS == 30
WOutingIds == 1..MaxWOutings
NoDate == -1
Days == 0..MaxDay

WStored(dates) == {o \in DOMAIN dates : dates[o] # NoDate}

\* get_last_outing_date: SELECT MAX(date) FROM Outings
LastOutingDate(dates) ==
    CHOOSE d \in {dates[o] : o \in WStored(dates)} : \A o \in WStored(dates) : dates[o] <= d

\* run(): get_last_outing_date(engine) - timedelta(days=7)
DefaultUpdateStart(last) == last - TRAILING_MARGIN_DAYS

\* _scrape: min_date = self.update_date_start - timedelta(days=30)
SkipSetMinDateNoLookback(start) == start
SkipSetMinDate(start) == start - LOOKBACK_DAYS

\* load_scraped_outings_ids(mode="outing_date"): WHERE date >= :min_date
OutingSkipSet(dates, min_date) == {o \in WStored(dates) : dates[o] >= min_date}

WindowInit ==
    /\ w_dates \in [WOutingIds -> Days \cup {NoDate}]
    /\ w_today = MaxDay
    /\ w_given \in {NoDate, 0}
    /\ w_pc = "idle"
    /\ w_act = 0
    /\ w_last_date = NoDate
    /\ w_start = NoDate
    /\ w_window = <<NoDate, NoDate>>
    /\ w_skip = {}

WindowIdle ==
    /\ w_dates = <<>>
    /\ w_today = 0
    /\ w_given = NoDate
    /\ w_pc = "idle"
    /\ w_act = 0
    /\ w_last_date = NoDate
    /\ w_start = NoDate
    /\ w_window = <<NoDate, NoDate>>
    /\ w_skip = {}

\* run() in update mode: without a given start date, the latest outing date
\* minus the trailing margin (on a store without outings this raises)
WindowRun ==
    /\ w_pc = "idle"
    /\ IF w_given # NoDate
       THEN /\ w_start' = w_given
            /\ w_pc' = "run"
            /\ UNCHANGED w_last_date
       ELSE IF WStored(w_dates) = {}
       THEN /\ w_pc' = "crashed"
            /\ UNCHANGED <<w_start, w_last_date>>
       ELSE /\ w_last_date' = LastOutingDate(w_dates)
            /\ w_start' = DefaultUpdateStart(LastOutingDate(w_dates))
            /\ w_pc' = "run"
    /\ UNCHANGED <<w_dates, w_today, w_given, w_act, w_window, w_skip>>
    /\ UNCHANGED notWindowVars

\* _scrape, top of the activity loop: the skip-set, then the list url
WindowActivity ==
    /\ w_pc \in {"run", "between"}
    /\ w_act < NumActs
    /\ w_skip' = OutingSkipSet(w_dates, SkipSetMinDate(w_start))
    /\ w_window' = <<w_start, w_today>>
    /\ w_pc' = "scraping"
    /\ UNCHANGED <<w_dates, w_today, w_given, w_act, w_last_date, w_start>>
    /\ UNCHANGED notWindowVars

\* the activity's write loop stores the outings `new` of the window
WindowWritten(new) ==
    /\ w_pc = "scraping"
    /\ new \subseteq WOutingIds \ WStored(w_dates)
    /\ w_dates' = [o \in WOutingIds |-> IF o \in new THEN w_today ELSE w_dates[o]]
    /\ w_act' = w_act + 1
    /\ w_pc' = "between"
    /\ UNCHANGED <<w_today, w_given, w_last_date, w_start, w_window, w_skip>>
    /\ UNCHANGED notWindowVars

WindowDone ==
    /\ w_pc = "between"
    /\ w_act = NumActs
    /\ w_pc' = "done"
    /\ UNCHANGED <<w_dates, w_today, w_given, w_act, w_last_date, w_start, w_window, w_skip>>
    /\ UNCHANGED notWindowVars

NextWindow ==
    \/ WindowRun
    \/ WindowActivity
    \/ \E new \in SUBSET WOutingIds : WindowWritten(new)
    \/ WindowDone

(***************************************************************************)
(* weather_stations_attribution: one route against a populated table       *)
(***************************************************************************)
MaxCand == 15
MaxMult == 3
MaxShift == 60
TopKRoute == 1
TopKModulus == 3 * RADIUS_KM + 1
TopKStations(n) == 1..n

TopKInit ==
    /\ \E n \in 1..MaxCand, mult \in 1..MaxMult, shift \in 0..MaxShift :
          /\ k_pos = [s \in TopKStations(n) |-> (s * mult + shift) % TopKModulus]
          /\ k_prior \in {{}, {<<TopKRoute, n>>}, {<<TopKRoute, 1>>, <<TopKRoute + 1, 1>>}}
    /\ k_pc = "route"
    /\ k_list = <<>>
    /\ k_ids = <<>>
    /\ k_links = k_prior

TopKIdle ==
    /\ k_pos = <<>>
    /\ k_prior = {}
    /\ k_pc = "route"
    /\ k_list = <<>>
    /\ k_ids = <<>>
    /\ k_links = {}

\* stations = load_stations_within_radius(...), with candidates
TopKLoad(list) ==
    /\ k_pc = "route"
    /\ list \in QueryOrders(StationsWithinRadius(TopKRoute, k_pos, RADIUS_KM))
    /\ list # <<>>
    /\ k_list' = list
    /\ k_pc' = "loaded"
    /\ UNCHANGED <<k_pos, k_prior, k_ids, k_links>>
    /\ UNCHANGED notTopKVars

\* if not stations: continue
TopKNoCandidate ==
    /\ k_pc = "route"
    /\ StationsWithinRadius(TopKRoute, k_pos, RADIUS_KM) = {}
    /\ k_pc' = "uncovered"
    /\ UNCHANGED <<k_pos, k_prior, k_list, k_ids, k_links>>
    /\ UNCHANGED notTopKVars

\* station_ids = filter_stations(route, stations, nkeep=NKEEP)
TopKFilter ==
    /\ k_pc = "loaded"
    /\ k_ids' = FilterStations(TopKRoute, k_list, k_pos, NKEEP)
    /\ k_pc' = "filtered"
    /\ UNCHANGED <<k_pos, k_prior, k_list, k_links>>
    /\ UNCHANGED notTopKVars

\* update_routes_station_mapping(session, route, station_ids)
TopKAttach ==
    /\ k_pc = "filtered"
    /\ k_links' = UpdateRoutesStationMapping(k_links, TopKRoute, k_ids, k_pos)
    /\ k_pc' = "attached"
    /\ UNCHANGED <<k_pos, k_prior, k_list, k_ids>>
    /\ UNCHANGED notTopKVars

NextTopK ==
    \/ \E list \in QueryOrders(StationsWithinRadius(TopKRoute, k_pos, RADIUS_KM)) : TopKLoad(list)
    \/ TopKNoCandidate
    \/ TopKFilter
    \/ TopKAttach

(***************************************************************************)
(* MFScraper.chunk_period                                                  *)
(***************************************************************************)
\* datetime.date covers the ordinals 1..date.max.toordinal(); the model
\* keeps the shape of that range with a small last ordinal
MaxOrdinal == 8
MaxChunkDays == 4
Ordinals == 1..MaxOrdinal
OverflowError == [kind |-> "OverflowError", code |-> 0]

\* date + timedelta(days=n): a date, or OverflowError outside the range
DatePlus(d, n) ==
    IF d + n \in Ordinals THEN [exc |-> NoExc, date |-> d + n]
    ELSE [exc |-> OverflowError, date |-> 0]

MinDate(a, b) == IF a <= b THEN a ELSE b

\* turns of the loop the model follows (the list of chunks is cut there)
MaxTurns == MaxOrdinal + 2

ChunkInit ==
    /\ c_start \in Ordinals
    /\ c_end \in Ordinals
    /\ c_max_days \in (0 - 1)..MaxChunkDays
    /\ c_cur = c_start
    /\ c_chunks = <<>>
    /\ c_pc = "loop"

ChunkIdle ==
    /\ c_start = 0
    /\ c_end = 0
    /\ c_max_days = 0
    /\ c_cur = 0
    /\ c_chunks = <<>>
    /\ c_pc = "idle"

\* one turn of `while cur <= end`
ChunkStep ==
    /\ c_pc = "loop"
    /\ c_cur <= c_end
    /\ Len(c_chunks) < MaxTurns
    /\ LET far == DatePlus(c_cur, c_max_days - 1)
       IN IF far.exc # NoExc
          THEN /\ c_pc' = "raised"
               /\ UNCHANGED <<c_chunks, c_cur>>
          ELSE LET nxt == MinDate(c_end, far.date)
                   after == DatePlus(nxt, 1)
               IN /\ c_chunks' = Append(c_chunks, <<c_cur, nxt>>)
                  /\ IF after.exc # NoExc
                     THEN /\ c_pc' = "raised"
                          /\ UNCHANGED c_cur
                     ELSE /\ c_cur' = after.date
                          /\ UNCHANGED c_pc
    /\ UNCHANGED <<c_start, c_end, c_max_days>>
    /\ UNCHANGED notChunkVars

\* the loop test fails: return chunks
ChunkReturn ==
    /\ c_pc = "loop"
    /\ c_cur > c_end
    /\ c_pc' = "returned"
    /\ UNCHANGED <<c_start, c_end, c_max_days, c_cur, c_chunks>>
    /\ UNCHANGED notChunkVars

NextChunk ==
    \/ ChunkStep
    \/ ChunkReturn

(***************************************************************************)
(* MFScraper.place_command: find_id                                        *)
(***************************************************************************)
MaxDepth == 2
MaxWidth == 2

\* a JSON value: a scalar (a string of digits, another string, a
\* non-negative integer, written as str() gives it) or a mapping or list of
\* values; a mapping is given by its values in key order
Scalar(t, v) == [t |-> t, v |-> v, items |-> <<>>]
Container(t, items) == [t |-> t, v |-> "", items |-> items]
JsonScalars == {Scalar("digits", "7"), Scalar("digits", "8"), Scalar("text", "x"),
                Scalar("int", "5")}
SeqsUpTo(S, n) == UNION {[1..k -> S] : k \in 0..n}
RECURSIVE JsonValues(_)
JsonValues(depth) ==
    IF depth = 0 THEN JsonScalars
    ELSE JsonScalars
            \cup {Container(t, items) : t \in {"dict", "list"},
                                        items \in SeqsUpTo(JsonValues(depth - 1), MaxWidth)}

NoId == ""

\* isinstance(v, (str, int)) and str(v).isdigit()
IsPlainDigits(v) == v.t \in {"digits", "int"}

\* find_id(obj)
RECURSIVE FindId(_)
RECURSIVE FindInDict(_, _)
RECURSIVE FindInList(_, _)
FindInDict(items, i) ==
    IF i > Len(items) THEN NoId
    ELSE IF IsPlainDigits(items[i]) THEN items[i].v
    ELSE IF FindId(items[i]) # NoId THEN FindId(items[i])
    ELSE FindInDict(items, i + 1)
FindInList(items, i) ==
    IF i > Len(items) THEN NoId
    ELSE IF FindId(items[i]) # NoId THEN FindId(items[i])
    ELSE FindInList(items, i + 1)
FindId(obj) ==
    IF obj.t = "dict" THEN FindInDict(obj.items, 1)
    ELSE IF obj.t = "list" THEN FindInList(obj.items, 1)
    ELSE NoId

\* order_id = None; if isinstance(j, dict): order_id = find_id(j)
ExtractOrderId(j) == IF j.t = "dict" THEN FindId(j) ELSE NoId

OrderInit ==
    /\ o_json \in JsonValues(MaxDepth)
    /\ o_pc = "response"
    /\ o_order_id = NoId

OrderIdle ==
    /\ o_json = <<>>
    /\ o_pc = "idle"
    /\ o_order_id = NoId

\* place_command after r.json(): return the id found, or raise RuntimeError
ParseOrderId ==
    /\ o_pc = "response"
    /\ IF ExtractOrderId(o_json) = NoId
       THEN /\ o_pc' = "raised"
            /\ UNCHANGED o_order_id
       ELSE /\ o_pc' = "returned"
            /\ o_order_id' = ExtractOrderId(o_json)
    /\ UNCHANGED o_json
    /\ UNCHANGED notOrderVars

NextOrder == ParseOrderId

(***************************************************************************)
(* MFScraper.get_with_retry                                                *)
(***************************************************************************)
MaxRetryArg == 3

\* what one requests.get can end with: a response with a status code, or
\* an exception (0)
GetOutcomes == {200, 202, 204, 404, 429, 500, 501, 503, 0}
GetSuccessCodes == {200, 201, 202}
GetRetriedCodes == {429, 500, 502, 503, 504}

GetInit ==
    /\ g_max_retry \in 0..MaxRetryArg
    /\ g_i = 0
    /\ g_log = <<>>
    /\ g_pc = "first"

GetIdle ==
    /\ g_max_retry = 0
    /\ g_i = 0
    /\ g_log = <<>>
    /\ g_pc = "idle"

\* resp = requests.get(url=url, **kwargs) before the loop
GetFirst(out) ==
    /\ g_pc = "first"
    /\ g_log' = <<out>>
    /\ g_pc' = IF out = 0 THEN "raised" ELSE "loop"
    /\ UNCHANGED <<g_max_retry, g_i>>
    /\ UNCHANGED notRetryVars

\* one turn of `for i in range(max_retry)`
GetTurn(out) ==
    /\ g_pc = "loop"
    /\ g_i < g_max_retry
    /\ g_i' = g_i + 1
    /\ LET status_code == g_log[Len(g_log)]
       IN IF status_code \in GetSuccessCodes
          THEN /\ g_pc' = "returned"
               /\ UNCHANGED g_log
          ELSE IF status_code \in GetRetriedCodes
          THEN /\ g_log' = Append(g_log, out)
               /\ g_pc' = IF out = 0 THEN "raised" ELSE "loop"
          ELSE /\ g_pc' = "returned"
               /\ UNCHANGED g_log
    /\ UNCHANGED g_max_retry
    /\ UNCHANGED notRetryVars

\* the loop is exhausted: return resp
GetReturnLast ==
    /\ g_pc = "loop"
    /\ g_i = g_max_retry
    /\ g_pc' = "returned"
    /\ UNCHANGED <<g_max_retry, g_i, g_log>>
    /\ UNCHANGED notRetryVars

NextRetry ==
    \/ \E out \in GetOutcomes : GetFirst(out)
    \/ \E out \in GetOutcomes : GetTurn(out)
    \/ GetReturnLast

(***************************************************************************)
(* bounding_box                                                            *)
(***************************************************************************)
\* Angles are whole degrees.  A radius is given by the arc it spans, so
\* that (max_distance_km / R) * (180 / pi) is the radius itself.  Centres
\* lie on the latitudes whose cosine is 1 or 1/2.
MaxRadiusSteps == 8
GridStep == 5
LonStep == 30
CentreLats == {-60, 0, 60}
GridLats == {GridStep * k : k \in -17..17}
GridLons == {LonStep * k : k \in -5..6}
BoxRadii == {GridStep * k : k \in 1..MaxRadiusSteps}

\* 1 / math.cos(math.radians(lat)) on CentreLats
Secant(lat) == IF lat = 0 THEN 1 ELSE 2

\* bounding_box(coord, max_distance_km)
BoundingBox(coord, radius) ==
    LET lat == coord[1]
        lon == coord[2]
        delta_lat == radius
        delta_lon == radius * Secant(lat)
    IN <<lat - delta_lat, lat + delta_lat, lon - delta_lon, lon + delta_lon>>

\* lat.between(min_lat, max_lat), lon.between(min_lon, max_lon)
InBox(point, box) ==
    /\ box[1] <= point[1] /\ point[1] <= box[2]
    /\ box[3] <= point[2] /\ point[2] <= box[4]

BoxInit ==
    /\ b_coord \in CentreLats \X GridLons
    /\ b_radius \in BoxRadii
    /\ b_box = <<0, 0, 0, 0>>
    /\ b_point = <<0, 0>>
    /\ b_inside = FALSE
    /\ b_pc = "call"

BoxIdle ==
    /\ b_coord = <<0, 0>>
    /\ b_radius = 0
    /\ b_box = <<0, 0, 0, 0>>
    /\ b_point = <<0, 0>>
    /\ b_inside = FALSE
    /\ b_pc = "idle"

\* min_lat, max_lat, min_lon, max_lon = bounding_box(...)
ComputeBox ==
    /\ b_pc = "call"
    /\ b_box' = BoundingBox(b_coord, b_radius)
    /\ b_pc' = "box"
    /\ UNCHANGED <<b_coord, b_radius, b_point, b_inside>>
    /\ UNCHANGED notBoxVars

\* the filter applied to a point of the table
TestPoint(point) ==
    /\ b_pc = "box"
    /\ b_point' = point
    /\ b_inside' = InBox(point, b_box)
    /\ b_pc' = "tested"
    /\ UNCHANGED <<b_coord, b_radius, b_box>>
    /\ UNCHANGED notBoxVars

NextBox ==
    \/ ComputeBox
    \/ \E point \in GridLats \X GridLons : TestPoint(point)

(***************************************************************************)
(* haversine_distance                                                      *)
(***************************************************************************)
\* Coordinates are multiples of 30 degrees, so that every angle the function
\* takes a sine or cosine of is a multiple of 15 degrees.  A float is a
\* whole number of units of 1 / Unit, and each arithmetic operation rounds
\* its exact result to the nearest unit, as a floating operation rounds to
\* the nearest representable number.
MaxLonSteps == 6
Unit == 100
HavLats == {30 * k : k \in -3..3}
HavLons == {30 * k : k \in -MaxLonSteps..MaxLonSteps}
ValueError == [kind |-> "ValueError", arc |-> 0]
Returned(arc) == [kind |-> "returned", arc |-> arc]

\* math.sin on the first quadrant, rounded to the unit
SinTable == [d \in {0, 15, 30, 45, 60, 75, 90} |->
                CASE d = 0 -> 0 [] d = 15 -> 26 [] d = 30 -> 50 [] d = 45 -> 71
                  [] d = 60 -> 87 [] d = 75 -> 97 [] d = 90 -> 100]

\* math.sin(math.radians(deg)), deg a multiple of 15
Sin(deg) ==
    LET t == deg % 360
    IN IF t <= 90 THEN SinTable[t]
       ELSE IF t <= 180 THEN SinTable[180 - t]
       ELSE IF t <= 270 THEN 0 - SinTable[t - 180]
       ELSE 0 - SinTable[360 - t]

\* math.cos(math.radians(deg))
Cos(deg) == Sin(deg + 90)

\* x * y on floats: the exact product rounded to the nearest unit
FMul(x, y) ==
    LET p == x * y
    IN IF p >= 0 THEN (2 * p + Unit) \div (2 * Unit)
       ELSE 0 - ((2 * (0 - p) + Unit) \div (2 * Unit))

\* a = sin(delta_phi / 2) ** 2 + cos(phi1) * cos(phi2) * sin(delta_lambda / 2) ** 2
HavA(coord1, coord2) ==
    LET lat1 == coord1[1]
        lon1 == coord1[2]
        lat2 == coord2[1]
        lon2 == coord2[2]
        sin_phi == Sin((lat2 - lat1) \div 2)
        sin_lambda == Sin((lon2 - lon1) \div 2)
    IN FMul(sin_phi, sin_phi)
         + FMul(FMul(Cos(lat1), Cos(lat2)), FMul(sin_lambda, sin_lambda))

\* c = 2 * math.atan2(math.sqrt(a), math.sqrt(1 - a)), in degrees of arc: the
\* widest angle of the grid whose haversine does not exceed a
ArcOfHav(a) ==
    LET fits == {t \in {30 * k : k \in 0..6} : FMul(Sin(t \div 2), Sin(t \div 2)) <= a}
    IN CHOOSE t \in fits : \A u \in fits : u <= t

\* haversine_distance(coord1, coord2), the distance as the arc it spans;
\* math.sqrt raises ValueError on a negative argument
HaversineDistance(coord1, coord2) ==
    LET a == HavA(coord1, coord2)
    IN IF a < 0 \/ Unit - a < 0 THEN ValueError ELSE Returned(ArcOfHav(a))

HavInit ==
    /\ hv_a \in HavLats \X HavLons
    /\ hv_b \in HavLats \X HavLons
    /\ hv_ab = Returned(0)
    /\ hv_ba = Returned(0)
    /\ hv_aa = Returned(0)
    /\ hv_pc = "ab"

HavIdle ==
    /\ hv_a = <<0, 0>>
    /\ hv_b = <<0, 0>>
    /\ hv_ab = Returned(0)
    /\ hv_ba = Returned(0)
    /\ hv_aa = Returned(0)
    /\ hv_pc = "idle"

\* haversine_distance(a, b)
HavForward ==
    /\ hv_pc = "ab"
    /\ hv_ab' = HaversineDistance(hv_a, hv_b)
    /\ hv_pc' = "ba"
    /\ UNCHANGED <<hv_a, hv_b, hv_ba, hv_aa>>
    /\ UNCHANGED notHavVars

\* haversine_distance(b, a)
HavBackward ==
    /\ hv_pc = "ba"
    /\ hv_ba' = HaversineDistance(hv_b, hv_a)
    /\ hv_pc' = "aa"
    /\ UNCHANGED <<hv_a, hv_b, hv_ab, hv_aa>>
    /\ UNCHANGED notHavVars

\* haversine_distance(a, a)
HavSelf ==
    /\ hv_pc = "aa"
    /\ hv_aa' = HaversineDistance(hv_a, hv_a)
    /\ hv_pc' = "done"
    /\ UNCHANGED <<hv_a, hv_b, hv_ab, hv_ba>>
    /\ UNCHANGED notHavVars

NextHav ==
    \/ HavForward
    \/ HavBackward
    \/ HavSelf

(***************************************************************************)
(* The workers of one list page: pool.map or the list comprehension        *)
(***************************************************************************)
MaxDocs == 3
MaxPoolWidth == 2
PoolProcs == 1..MaxPoolWidth
NoResult == [kind |-> "none"]

\* the associations upstream serves to the workers of the page
PoolAssoc == [o \in OutingIds |-> IF o = 1 THEN {1, 2} ELSE {1}]

\* worker_func(docs[i])
PoolWorker(i) ==
    WorkerResult(pl_target, pl_docs[i], pl_fetch[pl_docs[i]], pl_skip, PoolAssoc, 1, TRUE)

\* [worker_func(doc) for doc in docs]
ListComprehension == [i \in 1..Len(pl_docs) |-> PoolWorker(i)]

\* pool.map(worker_func, docs): the results in the order of docs
MapResultsAsCompleted(out, order) == [i \in 1..Len(order) |-> out[order[i]]]
MapResults(out, order) == [i \in 1..Len(order) |-> out[i]]

PoolInit ==
    /\ pl_target \in {"routes", "outings"}
    /\ pl_docs \in UNION {[1..n -> OutingIds] : n \in 0..MaxDocs}
    /\ pl_fetch \in [OutingIds -> FetchKinds]
    /\ pl_target = "outings" => \A o \in OutingIds : pl_fetch[o] # "exhausted"
    /\ pl_skip \in {{}, {1}}
    /\ pl_parallel \in BOOLEAN
    /\ pl_width \in (IF pl_parallel THEN PoolProcs ELSE {1})
    /\ pl_next = 1
    /\ pl_running = [w \in PoolProcs |-> 0]
    /\ pl_out = [i \in 1..Len(pl_docs) |-> NoResult]
    /\ pl_order = <<>>
    /\ pl_results = <<>>
    /\ pl_pc = "batch"

PoolIdle ==
    /\ pl_target = "routes"
    /\ pl_docs = <<>>
    /\ pl_fetch = <<>>
    /\ pl_skip = {}
    /\ pl_parallel = FALSE
    /\ pl_width = 1
    /\ pl_next = 1
    /\ pl_running = <<>>
    /\ pl_out = <<>>
    /\ pl_order = <<>>
    /\ pl_results = <<>>
    /\ pl_pc = "idle"

\* else: results = [worker_func(doc) for doc in docs]
PoolSequential ==
    /\ pl_pc = "batch"
    /\ ~(pl_parallel /\ Len(pl_docs) > 0)
    /\ pl_results' = ListComprehension
    /\ pl_pc' = "returned"
    /\ UNCHANGED <<pl_target, pl_docs, pl_fetch, pl_skip, pl_parallel, pl_width, pl_next,
                   pl_running, pl_out, pl_order>>
    /\ UNCHANGED notPoolVars

\* if self.parallel and len(docs) > 0: with multiprocessing.Pool(...) as pool
PoolOpen ==
    /\ pl_pc = "batch"
    /\ pl_parallel /\ Len(pl_docs) > 0
    /\ pl_pc' = "pool"
    /\ UNCHANGED <<pl_target, pl_docs, pl_fetch, pl_skip, pl_parallel, pl_width, pl_next,
                   pl_running, pl_out, pl_order, pl_results>>
    /\ UNCHANGED notPoolVars

\* an idle process of the pool takes the next document
PoolTake(w) ==
    /\ pl_pc = "pool"
    /\ w <= pl_width
    /\ pl_running[w] = 0
    /\ pl_next <= Len(pl_docs)
    /\ pl_running' = [pl_running EXCEPT ![w] = pl_next]
    /\ pl_next' = pl_next + 1
    /\ UNCHANGED <<pl_target, pl_docs, pl_fetch, pl_skip, pl_parallel, pl_width, pl_out,
                   pl_order, pl_results, pl_pc>>
    /\ UNCHANGED notPoolVars

\* the worker call of a process returns its result to the parent
PoolComplete(w) ==
    /\ pl_pc = "pool"
    /\ pl_running[w] # 0
    /\ pl_out' = [pl_out EXCEPT ![pl_running[w]] = PoolWorker(pl_running[w])]
    /\ pl_order' = Append(pl_order, pl_running[w])
    /\ pl_running' = [pl_running EXCEPT ![w] = 0]
    /\ UNCHANGED <<pl_target, pl_docs, pl_fetch, pl_skip, pl_parallel, pl_width, pl_next,
                   pl_results, pl_pc>>
    /\ UNCHANGED notPoolVars

\* pool.map returns once every worker call has returned
PoolMapReturn ==
    /\ pl_pc = "pool"
    /\ Len(pl_order) = Len(pl_docs)
    /\ pl_results' = MapResults(pl_out, pl_order)
    /\ pl_pc' = "returned"
    /\ UNCHANGED <<pl_target, pl_docs, pl_fetch, pl_skip, pl_parallel, pl_width, pl_next,
                   pl_running, pl_out, pl_order>>
    /\ UNCHANGED notPoolVars

NextPool ==
    \/ PoolSequential
    \/ PoolOpen
    \/ \E w \in PoolProcs : PoolTake(w)
    \/ \E w \in PoolProcs : PoolComplete(w)
    \/ PoolMapReturn

InitFetch == IterInit /\ HarvestIdle /\ AttrIdle /\ SeriesIdle /\ MetaIdle /\ WindowIdle /\ TopKIdle /\ ChunkIdle /\ OrderIdle /\ GetIdle /\ BoxIdle /\ HavIdle /\ PoolIdle
InitHarvest == HarvestInit /\ IterIdle /\ AttrIdle /\ SeriesIdle /\ MetaIdle /\ WindowIdle /\ TopKIdle /\ ChunkIdle /\ OrderIdle /\ GetIdle /\ BoxIdle /\ HavIdle /\ PoolIdle
InitAttr == AttrInit /\ IterIdle /\ HarvestIdle /\ SeriesIdle /\ MetaIdle /\ WindowIdle /\ TopKIdle /\ ChunkIdle /\ OrderIdle /\ GetIdle /\ BoxIdle /\ HavIdle /\ PoolIdle
InitSeries == SeriesInit /\ IterIdle /\ HarvestIdle /\ AttrIdle /\ MetaIdle /\ WindowIdle /\ TopKIdle /\ ChunkIdle /\ OrderIdle /\ GetIdle /\ BoxIdle /\ HavIdle /\ PoolIdle
InitMeta == MetaInit /\ IterIdle /\ HarvestIdle /\ AttrIdle /\ SeriesIdle /\ WindowIdle /\ TopKIdle /\ ChunkIdle /\ OrderIdle /\ GetIdle /\ BoxIdle /\ HavIdle /\ PoolIdle
InitWindow == WindowInit /\ IterIdle /\ HarvestIdle /\ AttrIdle /\ SeriesIdle /\ MetaIdle /\ TopKIdle /\ ChunkIdle /\ OrderIdle /\ GetIdle /\ BoxIdle /\ HavIdle /\ PoolIdle
InitTopK == TopKInit /\ IterIdle /\ HarvestIdle /\ AttrIdle /\ SeriesIdle /\ MetaIdle /\ WindowIdle /\ ChunkIdle /\ OrderIdle /\ GetIdle /\ BoxIdle /\ HavIdle /\ PoolIdle
InitChunk == ChunkInit /\ IterIdle /\ HarvestIdle /\ AttrIdle /\ SeriesIdle /\ MetaIdle /\ WindowIdle /\ TopKIdle /\ OrderIdle /\ GetIdle /\ BoxIdle /\ HavIdle /\ PoolIdle
InitOrder == OrderInit /\ IterIdle /\ HarvestIdle /\ AttrIdle /\ SeriesIdle /\ MetaIdle /\ WindowIdle /\ TopKIdle /\ ChunkIdle /\ GetIdle /\ BoxIdle /\ HavIdle /\ PoolIdle
InitRetry == GetInit /\ IterIdle /\ HarvestIdle /\ AttrIdle /\ SeriesIdle /\ MetaIdle /\ WindowIdle /\ TopKIdle /\ ChunkIdle /\ OrderIdle /\ BoxIdle /\ HavIdle /\ PoolIdle
InitBox == BoxInit /\ IterIdle /\ HarvestIdle /\ AttrIdle /\ SeriesIdle /\ MetaIdle /\ WindowIdle /\ TopKIdle /\ ChunkIdle /\ OrderIdle /\ GetIdle /\ HavIdle /\ PoolIdle
InitHav == HavInit /\ IterIdle /\ HarvestIdle /\ AttrIdle /\ SeriesIdle /\ MetaIdle /\ WindowIdle /\ TopKIdle /\ ChunkIdle /\ OrderIdle /\ GetIdle /\ BoxIdle /\ PoolIdle
InitPool == PoolInit /\ IterIdle /\ HarvestIdle /\ AttrIdle /\ SeriesIdle /\ MetaIdle /\ WindowIdle /\ TopKIdle /\ ChunkIdle /\ OrderIdle /\ GetIdle /\ BoxIdle /\ HavIdle

SpecFetch == InitFetch /\ [][NextFetch]_vars
SpecHarvest == InitHarvest /\ [][NextHarvest]_vars
SpecAttr == InitAttr /\ [][NextAttr]_vars
SpecSeries == InitSeries /\ [][NextSeries]_vars
SpecMeta == InitMeta /\ [][NextMeta]_vars
SpecWindow == InitWindow /\ [][NextWindow]_vars
SpecTopK == InitTopK /\ [][NextTopK]_vars
SpecChunk == InitChunk /\ [][NextChunk]_vars
SpecOrder == InitOrder /\ [][NextOrder]_vars
SpecRetry == InitRetry /\ [][NextRetry]_vars
SpecBox == InitBox /\ [][NextBox]_vars
SpecHav == InitHav /\ [][NextHav]_vars
SpecPool == InitPool /\ [][NextPool]_vars

(***************************************************************************)
(* Claims about the harvest orchestrator, checked under SpecHarvest        *)
(***************************************************************************)
Occurrences(seq, x) == Cardinality({i \in 1..Len(seq) : seq[i] = x})

C5_FailedFetchPath ==
    /\ last_wb.kind = "outing"
    /\ last_wb.failed # {}
    /\ last_wb.outing_insert = "IntegrityError"

\* C6: the write-back of an outing referencing routes absent from the store
\* makes exactly one synchronous fetch and exactly one route insert for each
\* of them and no standalone outing insert; an outing whose routes all exist
\* is inserted directly with no route insert.
C6_MissingRouteOneInsert ==
    last_wb.kind = "outing" =>
        /\ \A r \in last_wb.missing :
              /\ Occurrences(last_wb.fetches, r) = 1
              /\ Occurrences(last_wb.route_inserts, r) = 1
        /\ last_wb.missing # {} => last_wb.outing_insert = "none"
        /\ last_wb.missing = {} =>
              (last_wb.route_inserts = <<>> /\ last_wb.outing_insert # "none")

\* C7: when list page k+1 of an activity has been requested, every result of
\* list page k has already gone through the write loop.
C7_PageWrittenBeforeNextRequested ==
    \A i \in 1..Len(results) :
        (h_pc \in {"paging", "writing"} /\ results[i].status = "ok"
            /\ results[i].page < list_page)
        => (h_pc = "writing" /\ i <= write_idx)

\* C8: a list page that cannot be fetched does not abort the run: the only
\* failures that leave run() are precondition failures.
C8_ListFailureDoesNotAbort ==
    h_pc = "crashed" => crash_cause = "precondition"

\* C13: the writes of one batch are one transaction: nothing of the batch is
\* in the committed store while the write loop still has items to go through,
\* nor after an exception has left the write loop.
C13_BatchIsOneTransaction ==
    (\/ (h_pc = "writing" /\ write_idx < Len(results))
     \/ (h_pc = "crashed" /\ crash_cause = "write"))
        => db = batch_db

\* C14: every item the write loop has gone through is counted in the pass's
\* bookkeeping, an item that met an integrity conflict included, and the loop
\* goes on after a conflict.
C14_ConflictCounted ==
    h_pc = "writing" =>
        counters.written + counters.skipped + counters.errored = write_idx

\* C15: every worker result is exactly one of skipped (skipped, no error),
\* error (an error text, empty info, not skipped) or ok (not skipped, no
\* error, non-empty info).
C15_WorkerResultTagged ==
    \A i \in 1..Len(results) :
        LET r == results[i] IN
        \/ (r.skipped /\ r.error = "absent")
        \/ (~r.skipped /\ r.error = "text" /\ r.info = "empty")
        \/ (~r.skipped /\ r.error = "absent" /\ r.info = "full")

\* C16: an item whose worker result carries an error is dropped: it is
\* counted as errored, no write is attempted for it and the items after it
\* are still processed (the write loop is not left because of it).
C16_ErroredItemDropped ==
    /\ h_pc = "writing" =>
          counters.errored = Cardinality({i \in 1..write_idx : results[i].error # "absent"})
    /\ (h_pc = "crashed" /\ crash_cause = "write") => results[write_idx].error = "absent"

\* the route ids the list pages of the run enumerate
ListedIds ==
    UNION {UNION {{up_pages[a][p][i] : i \in 1..Len(up_pages[a][p])} :
                     p \in 1..Len(up_pages[a])} : a \in Activities}

C18_UpdateNeedsOutings ==
    (target = "outings" /\ start_db.outings = {}) =>
        /\ h_pc \in {"idle", "crashed"}
        /\ h_pc = "crashed" => crash_cause = "precondition"
        /\ list_page = 0
        /\ db = start_db

\* C33: in update mode, a listed outing whose id is in the skip-set gives a
\* skipped result, and no detail request was issued for it.
C33_SkipBeforeDetailFetch ==
    \A i \in 1..Len(results) :
        (target = "outings" /\ results[i].id \in scraped_ids)
            => (results[i].skipped /\ results[i].forced = 0)

\* the write-back of an outing went through without an exception and
\* without a failed route fetch
WriteBackClean ==
    /\ last_wb.kind = "outing"
    /\ last_wb.ok
    /\ last_wb.raised = "none"
    /\ last_wb.failed = {}

\* the outing of the last write-back is stored and linked to all its routes
OutingFullyLinked ==
    /\ last_wb.id \in db.outings
    /\ \A r \in last_wb.refs : <<r, last_wb.id>> \in db.links

\* a clean write-back links the outing to all its routes when its routes
\* were all in the store, or all missing from it
LinkedUnlessMixed ==
    (WriteBackClean /\ (last_wb.missing = {} \/ last_wb.missing = last_wb.refs))
        => OutingFullyLinked

\* C34: after the write-back of an outing item completed without error
\* (every needed route fetch succeeded), the store holds the outing and a
\* link between it and every route it references, also when some of these
\* routes were in the store and the others had to be fetched.
C34_OutingLinkedToAllRoutes == WriteBackClean => OutingFullyLinked

\* C36: in every per-activity summary, total_scraped is the sum of
\* total_written, total_skipped, total_errored and the number of items whose
\* write raised an integrity conflict, each item having gone to exactly one
\* of the four; so the three reported counts add up to total_scraped exactly
\* when the activity met no conflict.
C36_SummaryAddsUp ==
    /\ Len(conflict_log) = Len(message)
    /\ \A a \in 1..Len(message) :
          LET m == message[a] IN
          /\ m.total_scraped
                = m.total_written + m.total_skipped + m.total_errored + conflict_log[a]
          /\ (m.total_written + m.total_skipped + m.total_errored = m.total_scraped)
                <=> (conflict_log[a] = 0)
    /\ h_pc = "writing" =>
          counters.written + counters.skipped + counters.errored + conflicts = write_idx

\* witness of C36: a returned summary of two items, one written and one
\* lost to an integrity conflict
C36_Witness ==
    /\ h_pc = "done"
    /\ \E a \in 1..Len(message) :
          /\ message[a].total_scraped = 2
          /\ message[a].total_written = 1
          /\ conflict_log[a] = 1

\* the store holds every outing the window query lists: the state an update
\* pass that met no failure leaves, upstream being unchanged since
RerunOfUpdate == target = "outings" /\ ListedIds \subseteq start_db.outings

\* such a pass inserts nothing
RerunInsertsNothing ==
    RerunOfUpdate =>
        /\ db = start_db
        /\ counters.written = 0
        /\ \A a \in 1..Len(message) : message[a].total_written = 0

\* C37: an update pass re-run on unchanged upstream data after a fully
\* successful update pass inserts nothing, and every outing the window query
\* returns is reported skipped.
C37_RerunSkipsEveryOuting ==
    RerunOfUpdate =>
        /\ db = start_db
        /\ \A i \in 1..Len(results) : results[i].skipped
        /\ \A a \in 1..Len(message) :
              /\ message[a].total_written = 0
              /\ message[a].total_skipped = message[a].total_scraped

(***************************************************************************)
(* Claims about the attribution pass, checked under SpecAttr               *)
(***************************************************************************)
\* C9: after any attribution pass, a station's of_interest is false if and
\* only if the station is associated with no route.
C9_InterestIffAttached ==
    (a_pc = "idle" /\ a_passes >= 1) =>
        \A s \in StationIds : (of_interest[s] = FALSE) <=> (RoutesOf(a_links, s) = {})

AttrProcessed == {a_todo[i] : i \in 1..a_idx}
AttrBox(r) == {s \in StationIds : Abs(20 * r - station_pos[s]) <= 20}
AttrPassOver == a_pc \in {"flags", "idle"} /\ (a_pc = "idle" => a_passes >= 1)

\* C21: in reset mode every association is deleted before the first route is
\* attributed, every route of the target country is processed exactly once,
\* and after the pass every route's station set is empty or the set computed
\* in this pass.
C21_ResetRebuildsEverything ==
    a_mode = "reset" =>
        /\ a_pc = "routes" =>
              /\ \A l \in a_links : l[1] \in AttrProcessed
              /\ a_idx = 0 => a_committed = {}
              /\ {a_todo[i] : i \in 1..Len(a_todo)} = a_routes \cap a_country
              /\ Len(a_todo) = Cardinality(a_routes \cap a_country)
        /\ AttrPassOver =>
              /\ a_counts.processed = Cardinality({a_todo[i] : i \in 1..Len(a_todo)})
              /\ \A r \in ARouteIds :
                    IF r \in AttrProcessed
                    THEN {s \in StationIds : <<r, s>> \in a_links} = AttrBox(r)
                    ELSE {s \in StationIds : <<r, s>> \in a_links} = {}

\* a reset pass is over; a row of a route outside the target country and a
\* row of a route inside it existed before and are gone, and a route has
\* stations again
C21_Witness ==
    /\ a_mode = "reset"
    /\ a_pc = "idle"
    /\ a_passes >= 1
    /\ \E l \in a_before : l[1] \notin a_country /\ l \notin a_links
    /\ \E l \in a_before : l[1] \in a_country /\ l \notin a_links
    /\ \E l \in a_links : l \notin a_before

AttrEligible ==
    {r \in a_routes \cap a_country : {s \in StationIds : <<r, s>> \in a_before} = {}}

\* C22: an update pass changes the station set only of routes of the target
\* country that had no station when the pass started.
C22_UpdateTouchesOnlyBareRoutes ==
    (a_mode = "update" /\ (a_pc # "idle" \/ a_passes >= 1)) =>
        \A r \in ARouteIds \ AttrEligible :
            {s \in StationIds : <<r, s>> \in a_links} = {s \in StationIds : <<r, s>> \in a_before}

\* an update pass is over: a bare route of the country got stations and an
\* attributed route of the country kept a station outside its box
C22_Witness ==
    /\ a_mode = "update"
    /\ a_pc = "idle"
    /\ a_passes >= 1
    /\ \E l \in a_links : l \notin a_before
    /\ \E l \in a_before : l[1] \in a_country /\ l[2] \notin AttrBox(l[1]) /\ l \in a_links

\* C23: the of-interest flags are written once per pass, after the last
\* route has been processed and the associations committed, never during
\* the route loop.
C23_FlagsOncePerPassAtEnd ==
    [][ /\ of_interest' # of_interest =>
            /\ a_pc = "flags"
            /\ a_idx = Len(a_todo)
            /\ a_committed = a_links
            /\ a_pc' = "idle"
        /\ a_passes' # a_passes =>
            /\ a_passes' = a_passes + 1
            /\ a_pc = "flags"
            /\ of_interest' =
                  [s \in StationIds |->
                      IF \E r \in ARouteIds : <<r, s>> \in a_links THEN of_interest[s] ELSE FALSE]
        /\ (a_pc = "routes" /\ a_pc' = "idle") => FALSE ]_vars

\* a pass with at least two processed routes has written a flag
C23_Witness ==
    /\ a_pc = "idle"
    /\ a_passes >= 1
    /\ a_idx >= 2
    /\ a_counts.updated >= 1
    /\ \E s \in StationIds : of_interest[s] = FALSE

\* C24: a processed route without any station in its box has no station and
\* is counted as uncovered; processed = rewritten + uncovered.
C24_UncoveredCounted ==
    (a_pc # "idle" \/ a_passes >= 1) =>
        /\ \A r \in AttrProcessed :
              AttrBox(r) = {} => {s \in StationIds : <<r, s>> \in a_links} = {}
        /\ a_counts.no_station_candidates = Cardinality({r \in AttrProcessed : AttrBox(r) = {}})
        /\ a_counts.updated = Cardinality({r \in AttrProcessed : AttrBox(r) # {}})
        /\ a_counts.processed = a_counts.updated + a_counts.no_station_candidates
        /\ a_counts.processed = a_idx

\* a pass is over with one route rewritten and one uncovered
C24_Witness ==
    /\ a_pc = "idle"
    /\ a_passes >= 1
    /\ a_counts.updated >= 1
    /\ a_counts.no_station_candidates >= 1

(***************************************************************************)
(* Claims about the time-series download, checked under SpecSeries         *)
(***************************************************************************)
\* C10: poll_and_download keeps requesting the download endpoint while the
\* file is not yet available and returns a file only once content has been
\* returned: a call that returned normally has received a non-empty body.
C10_ReturnsOnlyWithContent ==
    \A i \in 1..Len(s_chunk_log) :
        (s_chunk_log[i].stage = "poll" /\ s_chunk_log[i].exc = NoExc)
            => s_chunk_log[i].content # ""

\* C26: a chunk whose order or download fails is skipped, every later chunk
\* is still attempted in order, scrape_station ends normally, and the
\* combined output holds exactly the chunks that were downloaded without
\* failure, in chunk order.
C26_CombinedIsEveryDownloadedChunk ==
    /\ s_pc \in {"idle", "place", "poll", "combine", "done"}
    /\ s_pc \in {"place", "poll"} => Len(s_chunk_log) = s_idx - 1
    /\ s_pc \in {"combine", "done"} => Len(s_chunk_log) = s_nchunks
    /\ Len(downloaded_files) = Cardinality({i \in 1..Len(s_chunk_log) : s_chunk_log[i].exc = NoExc})
    /\ s_pc = "done" => s_combined = downloaded_files

(***************************************************************************)
(* Claims about the station-metadata run, checked under SpecMeta           *)
(***************************************************************************)
StoredOfDept(store, d) == {id \in store : DeptOf(id) = d}
EligibleOfDept(d, open) ==
    {id \in AllMetaStations : DeptOf(id) = d /\ id \in open /\ id # HardExcludedId}

\* C11: in every committed store state, whatever runs aborted before, a
\* department is never partially stored: if the store holds a station of
\* department d it holds every open, non-excluded station of d's listing.
C11_RegionNeverPartial ==
    \A d \in Departments :
        StoredOfDept(m_store, d) # {} => EligibleOfDept(d, m_open) \subseteq m_store

\* a run was cut while stations of a department were pending, and a
\* department with more than one eligible station is in the store
C11_Witness ==
    /\ m_dropped # {}
    /\ \E d \in Departments :
          /\ StoredOfDept(m_store, d) # {}
          /\ Cardinality(EligibleOfDept(d, m_open)) >= 2

\* the store held a station of department d when the run started
HeldAtStart(d, known) == \E id \in known : DeptOf(id) = d

\* C12: a department with a station in the store at the start of the run
\* gets no API call and no write in that run; every other department the
\* loop has gone past has been listed.
C12_KnownRegionUntouched ==
    m_runs >= 1 =>
        /\ \A i \in 1..Len(m_calls) : ~HeldAtStart(m_calls[i].dept, m_known)
        /\ \A id \in (m_store \ m_known) \cup m_session : ~HeldAtStart(DeptOf(id), m_known)
        /\ \A d \in Departments :
              (d < m_dept /\ ~HeldAtStart(d, m_known))
                  => \E i \in 1..Len(m_calls) : m_calls[i] = ListCall(d)

\* a run that started with a stored department has gone past it and has
\* listed another one
C12_Witness ==
    /\ m_known # {}
    /\ \E d \in Departments : d < m_dept /\ HeldAtStart(d, m_known)
    /\ \E i \in 1..Len(m_calls) : m_calls[i].kind = "list"

MetaRequestedOf(d) ==
    {m_calls[i].id : i \in {j \in 1..Len(m_calls) : m_calls[j].kind = "meta" /\ m_calls[j].dept = d}}
WantedOfDept(d) ==
    {id \in AllMetaStations :
        /\ id \div 100 = d
        /\ id \notin m_known
        /\ id \in m_open
        /\ id # MaxDepts * 100 + 1}

\* C25: in a region that is not skipped, a metadata request is made for a
\* listed station exactly when it is not known, open and not the excluded
\* id; the region is committed with exactly those stations; a dropped
\* station gets neither request nor write.
C25_RequestedIffWanted ==
    m_runs >= 1 =>
        \A d \in Departments :
            ~HeldAtStart(d, m_known) =>
                /\ MetaRequestedOf(d) \subseteq WantedOfDept(d)
                /\ Cardinality({j \in 1..Len(m_calls) :
                                   m_calls[j].kind = "meta" /\ m_calls[j].dept = d})
                       = Cardinality(MetaRequestedOf(d))
                /\ (d < m_dept \/ (d = m_dept /\ m_pc = "write"))
                       => MetaRequestedOf(d) = WantedOfDept(d)
                /\ d < m_dept => StoredOfDept(m_store, d) = WantedOfDept(d)
                /\ d >= m_dept => StoredOfDept(m_store, d) = {}
                /\ StoredOfDept(m_session, d) \subseteq WantedOfDept(d)

\* the department of the excluded station has been committed: the excluded
\* station, listed as open, is not stored while another station of the
\* department is, and a closed station of another committed department got
\* no request
C25_Witness ==
    /\ m_runs = 1
    /\ m_pc = "done"
    /\ MaxDepts * 100 + 1 \in m_open
    /\ MaxDepts * 100 + 1 \notin m_store
    /\ StoredOfDept(m_store, MaxDepts) # {}
    /\ \E id \in AllMetaStations : id \notin m_open /\ StoredOfDept(m_store, id \div 100) # {}

(***************************************************************************)
(* Claims about the update window, checked under SpecWindow                *)
(***************************************************************************)
\* C19: in update mode without a given start date the list request covers
\* [D - 7 days, now], D being the latest outing date of the store when the
\* run started, and the skip-set is exactly the stored outings dated on or
\* after (D - 7 days) - 30 days.
C19_WindowAndSkipSet ==
    (w_pc = "scraping" /\ w_given = NoDate) =>
        /\ w_window = <<w_last_date - 7, w_today>>
        /\ w_skip = {o \in WOutingIds :
                        w_dates[o] # NoDate /\ w_dates[o] >= (w_last_date - 7) - 30}
        /\ \A o \in WOutingIds : w_act = 0 => w_dates[o] <= w_last_date
        /\ \E o \in WOutingIds : w_dates[o] = w_last_date

\* an activity is being scraped with a stored outing inside the lookback and
\* a stored outing just outside it
C19_Witness ==
    /\ w_pc = "scraping"
    /\ w_given = NoDate
    /\ \E o \in WOutingIds : o \in w_skip
    /\ \E o \in WOutingIds : w_dates[o] = w_last_date - 38 /\ o \notin w_skip

\* the skip-set reaches back at least to the start of the fetch window:
\* every stored outing dated inside the window is in the skip-set
WindowInsideSkipSet ==
    w_pc = "scraping" =>
        \A o \in WOutingIds :
            (w_dates[o] # NoDate /\ w_dates[o] >= w_window[1] /\ w_dates[o] <= w_window[2])
                => o \in w_skip

(***************************************************************************)
(* Claims about the top-K attribution, checked under SpecTopK              *)
(***************************************************************************)
TopKCandidates == {s \in DOMAIN k_pos : Abs(k_pos[s] - RADIUS_KM * TopKRoute) <= 20}
TopKDist(s) == Abs(k_pos[s] - RADIUS_KM * TopKRoute)
TopKAttached == {s \in DOMAIN k_pos : <<TopKRoute, s>> \in k_links}
TopKExpectedSize == IF Cardinality(TopKCandidates) < 10 THEN Cardinality(TopKCandidates) ELSE 10

\* C20: a route with n >= 1 candidates in its bounding box gets exactly
\* min(10, n) stations; they are the nearest candidates, ranked in ascending
\* distance; the route's rows are replaced by exactly that set; every
\* candidate with 10 or more strictly nearer candidates is excluded.
C20_TopKAttached ==
    (k_pc = "attached" /\ TopKCandidates # {}) =>
        /\ Cardinality(TopKAttached) = TopKExpectedSize
        /\ TopKAttached \subseteq TopKCandidates
        /\ \A a \in TopKAttached : \A c \in TopKCandidates \ TopKAttached :
               TopKDist(a) <= TopKDist(c)
        /\ \A c \in TopKCandidates :
               Cardinality({t \in TopKCandidates : TopKDist(t) < TopKDist(c)}) >= 10
                   => c \notin TopKAttached
        /\ Len(k_ids) = TopKExpectedSize
        /\ \A i \in 1..Len(k_ids) : \A j \in i..Len(k_ids) : TopKDist(k_ids[i]) <= TopKDist(k_ids[j])
        /\ TopKAttached = {k_ids[i] : i \in 1..Len(k_ids)}
        /\ {l \in k_links : l[1] # TopKRoute} = {l \in k_prior : l[1] # TopKRoute}

\* 15 candidates: 10 attached, 5 excluded, and a station the route had before
\* is among the excluded
C20_Witness ==
    /\ k_pc = "attached"
    /\ Cardinality(TopKCandidates) = 15
    /\ Cardinality(TopKAttached) = 10
    /\ Cardinality(TopKCandidates \ TopKAttached) = 5
    /\ \E l \in k_prior : l[1] = TopKRoute /\ l \notin k_links

(***************************************************************************)
(* Claims about chunk_period, checked under SpecChunk                      *)
(***************************************************************************)
\* the chunks returned cut [start, end] into consecutive pieces of at most
\* max_days days
ChunksPartitionRange ==
    c_pc = "returned" /\ c_start <= c_end =>
        /\ Len(c_chunks) >= 1
        /\ c_chunks[1][1] = c_start
        /\ c_chunks[Len(c_chunks)][2] = c_end
        /\ \A i \in 1..Len(c_chunks) :
              /\ c_chunks[i][1] <= c_chunks[i][2]
              /\ c_chunks[i][2] - c_chunks[i][1] + 1 <= c_max_days
              /\ i > 1 => c_chunks[i][1] = c_chunks[i - 1][2] + 1
        /\ \A d \in c_start..c_end :
              Cardinality({i \in 1..Len(c_chunks) : c_chunks[i][1] <= d /\ d <= c_chunks[i][2]}) = 1

\* C27: for start <= end and max_days >= 1 chunk_period returns chunks with
\* inclusive bounds that are contiguous and disjoint, start at start, end at
\* end, span at most max_days days each and cover every day exactly once.
C27_ChunksCoverRange ==
    (c_start <= c_end /\ c_max_days >= 1) =>
        /\ c_pc \in {"loop", "returned"}
        /\ ChunksPartitionRange

\* with max_days >= 1 every turn of the loop moves cur forward, and the
\* list returned holds ceil((end - start + 1) / max_days) chunks
ChunkCountWhenPositive ==
    (c_start <= c_end /\ c_max_days >= 1) =>
        /\ Len(c_chunks) <= c_end - c_start + 1
        /\ \A i \in 1..Len(c_chunks) : c_chunks[i][1] <= c_chunks[i][2]
        /\ c_pc = "returned" => Len(c_chunks) = CeilDiv(c_end - c_start + 1, c_max_days)

\* C39: for every start <= end and every max_days handed over by
\* scrape_station, chunk_period terminates -- its loop makes no more turns
\* than there are days in the range -- and what it returns holds
\* ceil((end - start + 1) / max_days) chunks.
C39_TerminatesWithCeilChunks ==
    c_start <= c_end =>
        /\ Len(c_chunks) <= c_end - c_start + 1
        /\ c_pc = "returned" =>
              /\ c_max_days >= 1
              /\ Len(c_chunks) = CeilDiv(c_end - c_start + 1, c_max_days)

(***************************************************************************)
(* Claims about the order id of place_command, checked under SpecOrder     *)
(***************************************************************************)
\* the first all-digit value of a JSON value in depth-first order ("": none)
RECURSIVE FirstDigits(_)
RECURSIVE FirstDigitsFrom(_, _)
FirstDigitsFrom(items, i) ==
    IF i > Len(items) THEN ""
    ELSE IF FirstDigits(items[i]) # "" THEN FirstDigits(items[i])
    ELSE FirstDigitsFrom(items, i + 1)
FirstDigits(x) ==
    IF x.t \in {"digits", "int"} THEN x.v
    ELSE IF x.t \in {"dict", "list"} THEN FirstDigitsFrom(x.items, 1)
    ELSE ""

\* C28: place_command returns the first all-digit value of the response in
\* depth-first order, wherever it sits, and raises exactly when the response
\* holds no such value.
C28_FirstDigitStringAnywhere ==
    /\ o_pc = "returned" => o_order_id = FirstDigits(o_json)
    /\ o_pc = "raised" => FirstDigits(o_json) = ""

(***************************************************************************)
(* Claims about get_with_retry, checked under SpecRetry                    *)
(***************************************************************************)
\* HTTP 429, any 5xx status, or no response at all (connection error)
TransientOutcome(out) == out = 429 \/ (500 <= out /\ out <= 599) \/ out = 0

\* the attempts are bounded by max_retry + 1 and only a transient failure is
\* followed by another request
RetryBoundedAndOnlyTransient ==
    /\ Len(g_log) <= g_max_retry + 1
    /\ \A n \in 1..(Len(g_log) - 1) : TransientOutcome(g_log[n])

\* C29: get_with_retry retries every transient failure (429, any 5xx,
\* connection error) and only those, with at most max_retry + 1 requests;
\* it returns at once on a success status and after one request on a status
\* that is not retryable.
C29_RetriesExactlyTransient ==
    /\ RetryBoundedAndOnlyTransient
    /\ (g_pc \in {"returned", "raised"} /\ TransientOutcome(g_log[Len(g_log)]))
           => Len(g_log) = g_max_retry + 1

(***************************************************************************)
(* Claims about bounding_box, checked under SpecBox                        *)
(***************************************************************************)
\* the great-circle distance, in degrees of arc, of two points that lie on
\* one meridian, on opposite meridians, or both on the equator (-1: the
\* pair is none of these)
ArcBetween(p, q) ==
    LET dlon == IF p[2] >= q[2] THEN p[2] - q[2] ELSE q[2] - p[2]
        dlat == IF p[1] >= q[1] THEN p[1] - q[1] ELSE q[1] - p[1]
    IN IF dlon = 0 THEN dlat
       ELSE IF dlon = 180
       THEN (IF p[1] + q[1] >= 0 THEN 180 - (p[1] + q[1]) ELSE 180 + (p[1] + q[1]))
       ELSE IF p[1] = 0 /\ q[1] = 0
       THEN (IF dlon <= 180 THEN dlon ELSE 360 - dlon)
       ELSE -1

\* C30: every point within great-circle distance R of a coordinate away
\* from the poles lies inside the box bounding_box returns for it.
C30_CircleInsideBox ==
    (b_pc = "tested" /\ ArcBetween(b_coord, b_point) >= 0
                     /\ ArcBetween(b_coord, b_point) <= b_radius)
        => b_inside

(***************************************************************************)
(* Claims about haversine_distance, checked under SpecHav                  *)
(***************************************************************************)
\* whenever both calls return, they return the same distance, and the
\* distance of a coordinate to itself is zero
HavSymmetricWhenReturned ==
    hv_pc = "done" =>
        /\ (hv_ab.kind = "returned" /\ hv_ba.kind = "returned") => hv_ab = hv_ba
        /\ hv_aa = Returned(0)

\* C31: for every pair of coordinates a, b, haversine_distance(a, b) and
\* haversine_distance(b, a) return the same distance, and
\* haversine_distance(a, a) returns 0.
C31_SymmetricAndZeroOnDiagonal ==
    hv_pc = "done" =>
        /\ hv_ab.kind = "returned"
        /\ hv_ba = hv_ab
        /\ hv_aa = Returned(0)

====
